---- MODULE Spec2Model ----
(***************************************************************************)
(* Structured-output recovery pipeline of AiSchematicsEnsemble:            *)
(*   - parseEnsembleOutputs (ensemble.ts): tagged-block extraction with    *)
(*     fenced-code-block and brace-span fallbacks;                         *)
(*   - parseNetlist (netlist/parse.ts): the small SPICE tokenizer;         *)
(*   - netlistToDot (netlist/graph.ts): the bipartite connectivity graph.  *)
(*                                                                         *)
(* Text is modelled as a sequence of lexemes (TLA+ strings).  A lexeme is  *)
(* an indivisible run of characters: each tag, the three-backtick fence,   *)
(* a newline, a blank, a brace, or a word.  The character classes the      *)
(* regular expressions of the source look at are given per lexeme by the   *)
(* tables below.  Indices are 0-based as in the source, -1 is "not found". *)
(***************************************************************************)
EXTENDS Integers, Sequences, FiniteSets, TLC

\* response: the text handed to parseEnsembleOutputs
\* parts:    how many pieces the response was assembled from
\* outputs:  what parseEnsembleOutputs returned, NotReturned before the call
VARIABLES response, parts, outputs

\* netlist:  the text handed to parseNetlist
\* written:  how many pieces the netlist was assembled from
\* stage:    "text", then "parsed" after parseNetlist, then "drawn" after netlistToDot
\* comps:    the SpiceComponent list parseNetlist returned
\* dot:      the statements of the DOT text netlistToDot returned
VARIABLES netlist, written, stage, comps, dot

\* netlistText:    the netlist handed to bundleSpiceIncludes
\* appended:       how many lines the netlist was assembled from
\* phase:          "input", then "loop" while the directive lines are resolved,
\*                 then "returned"
\* maxFiles, maxTotalBytes: the limits in force during the pass
\* cursor:         1-based index of the line the for loop is at
\* copied, missing: the two reports of the pass
\* rewriteMap:     original specifier -> path written into the bundled netlist
\* totalBytes:     bytes copied so far
\* bundledNetlist: the rewritten text bundleSpiceIncludes returned
VARIABLES netlistText, appended, phase, maxFiles, maxTotalBytes, cursor, copied, missing, rewriteMap, totalBytes, bundledNetlist

\* enabledProviders: the providers of the run, after normalizeEnabledProviders
\* jobs:       one promise per enabled provider, pending or settled
\* answers:    what Promise.all resolved to
\* pc:         where runBatch is
\* requests:   the ensembling requests issued so far
\* ensemble:   the ModelAnswer of the ensembling provider
\* files:      the files written into the run directory, in order
VARIABLES enabledProviders, jobs, answers, pc, requests, ensemble, files

\* finalNetlist:    out.spiceNetlist, the netlist of the ensembled answer;
\*                  NotYet until the outputs are parsed
\* baselineNetlist: the baseline netlist of the run, Undefined when none was given
\* sourceLabel:     which netlist the connectivity diagram was built from
\* schematicDot:    the statements written to schematic.dot
VARIABLES finalNetlist, baselineNetlist, sourceLabel, schematicDot

\* argv:      the flags given on the command line of "run"
\* opts:      the options object commander hands to the action
\* cfg:       what readRunConfig returned, NoConfig without --config
\* passed:    the options the action passed to runBatch
\* commandPc: where the run command is
VARIABLES argv, opts, cfg, passed, commandPc

\* requestedPort: the port startUiServer was asked for, 0 before the call
\* tried:         the ports passed to server.listen so far, each with its outcome
\* boundPort:     the port the server listens on
\* listenPc:      "idle", "trying", then "listening" or "threw"
\* thrown:        the error startUiServer ended with
VARIABLES requestedPort, tried, boundPort, listenPc, thrown

\* historyArg:      the argument of --max-history
\* maxHistory:      the number the chat command computed from it
\* saving:          opts.save
\* turns:           the history of the session: the serial numbers of the
\*                  messages whose turn is kept
\* currentProvider: the provider answering the next message
\* prompted:        the last prompt: the turns it included and the turns there were
\* artifacts:       the files written under turns/, each with the message it is of
\* sent:            how many messages the user has sent
\* chatPc:          "start", then "repl"
VARIABLES historyArg, maxHistory, saving, turns, currentProvider, prompted, artifacts, sent, chatPc

\* allowedRunDirs: the Set of run directories of one server instance
\* returnedDirs:   the run directories /api/run has answered 200 with
\* runRequests:    how many /api/run requests the server has handled
\* lastResponse:   the last answer to /api/run, /api/open or /api/file, with the
\*                 path asked for
VARIABLES allowedRunDirs, returnedDirs, runRequests, lastResponse

ensembleVars == <<response, parts, outputs>>
netlistVars == <<netlist, written, stage, comps, dot>>
bundleVars == <<netlistText, appended, phase, maxFiles, maxTotalBytes, cursor,
                copied, missing, rewriteMap, totalBytes, bundledNetlist>>
runVars == <<enabledProviders, jobs, answers, pc, requests, ensemble, files>>
diagramVars == <<finalNetlist, baselineNetlist, sourceLabel, schematicDot>>
configVars == <<argv, opts, cfg, passed, commandPc>>
listenVars == <<requestedPort, tried, boundPort, listenPc, thrown>>
chatVars == <<historyArg, maxHistory, saving, turns, currentProvider, prompted, artifacts,
              sent, chatPc>>
serverVars == <<allowedRunDirs, returnedDirs, runRequests, lastResponse>>
commandVars == <<diagramVars, configVars, listenVars, chatVars, serverVars>>
vars == <<response, parts, outputs, netlist, written, stage, comps, dot,
          netlistText, appended, phase, maxFiles, maxTotalBytes, cursor,
          copied, missing, rewriteMap, totalBytes, bundledNetlist,
          enabledProviders, jobs, answers, pc, requests, ensemble, files,
          finalNetlist, baselineNetlist, sourceLabel, schematicDot,
          argv, opts, cfg, passed, commandPc,
          requestedPort, tried, boundPort, listenPc, thrown,
          historyArg, maxHistory, saving, turns, currentProvider, prompted, artifacts,
          sent, chatPc, allowedRunDirs, returnedDirs, runRequests, lastResponse>>

\* ----------------------------------------------------------------------
\* Lexemes and their character classes
\* ----------------------------------------------------------------------
TAG_MD_OPEN == "<final_markdown>"
TAG_MD_CLOSE == "</final_markdown>"
TAG_SPICE_OPEN == "<spice_netlist>"
TAG_SPICE_CLOSE == "</spice_netlist>"
TAG_JSON_OPEN == "<circuit_json>"
TAG_JSON_CLOSE == "</circuit_json>"

\* the run of three backticks that opens or closes a fenced code block
FENCE == "[fence]"
NL == "\n"
SP == " "
CR == "\r"

\* \s of the regular expressions, and what String.prototype.trim removes
IsSpace(t) == t \in {SP, NL, CR}

\* the lexeme contains a backtick (excluded from the language part of a fence)
HasBacktick(t) == t = FENCE

\* first character is a word character (for the \b after a directive keyword)
StartsWithWordChar(t) ==
    t \in {"Hello", "R1", "spice", "SPICE", "json", "text", "in", "out", "out+", "out-",
           "0", "1k", "1u", "1m", "10m", "5", "dc", "k=v", "C1", "V1", "X1", "M1", "R2",
           "p", "q", "r", "s", "t"}

\* the lexeme matches ^\.(tran|ac|dc|op|end|model|include|param) up to its end
IsDirectiveKeyword(t) == t \in {".end", ".tran"}

\* first character is one of RCLVIEMQXD, either case
StartsWithDeviceLetter(t) == t \in {"R1", "R2", "C1", "V1", "X1", "M1", "dc", "in", "q", "r"}

\* first character is '*' or ';'
StartsWithCommentMark(t) == t \in {"*", ";"}

\* String.prototype.toLowerCase on one lexeme
ToLowerCase(t) ==
    CASE t = "SPICE" -> "spice"
      [] t = "Hello" -> "hello"
      [] t = "R1" -> "r1"
      [] t = "INCLUDE" -> "include"
      [] OTHER -> t

\* ----------------------------------------------------------------------
\* String primitives
\* ----------------------------------------------------------------------
indexOf(text, tok) ==
    IF \E i \in 1..Len(text) : text[i] = tok
    THEN (CHOOSE i \in 1..Len(text) :
              text[i] = tok /\ \A k \in 1..(i - 1) : text[k] # tok) - 1
    ELSE -1

lastIndexOf(text, tok) ==
    IF \E i \in 1..Len(text) : text[i] = tok
    THEN (CHOOSE i \in 1..Len(text) :
              text[i] = tok /\ \A k \in (i + 1)..Len(text) : text[k] # tok) - 1
    ELSE -1

\* text.substring(a, b), 0-based, end exclusive
substring(text, a, b) == SubSeq(text, a + 1, b)

trim(text) ==
    IF \A i \in 1..Len(text) : IsSpace(text[i])
    THEN <<>>
    ELSE LET a == CHOOSE i \in 1..Len(text) :
                      ~IsSpace(text[i]) /\ \A k \in 1..(i - 1) : IsSpace(text[k])
             b == CHOOSE i \in 1..Len(text) :
                      ~IsSpace(text[i]) /\ \A k \in (i + 1)..Len(text) : IsSpace(text[k])
         IN  SubSeq(text, a, b)

\* text.split(/\r?\n/): the lines of the text (no "\r" lexeme in the alphabet)
RECURSIVE splitLines(_)
splitLines(text) ==
    LET j == indexOf(text, NL)
    IN  IF j = -1 THEN <<text>>
        ELSE <<substring(text, 0, j)>> \o splitLines(SubSeq(text, j + 2, Len(text)))

\* the maximal runs of non-space lexemes of a trimmed line (line.split(/\s+/))
RECURSIVE splitWords(_)
splitWords(line) ==
    IF line = <<>> THEN <<>>
    ELSE IF IsSpace(line[1]) THEN splitWords(Tail(line))
    ELSE LET e == IF \E i \in 1..Len(line) : IsSpace(line[i])
                  THEN (CHOOSE i \in 1..Len(line) :
                            IsSpace(line[i]) /\ \A k \in 1..(i - 1) : ~IsSpace(line[k])) - 1
                  ELSE Len(line)
         IN  <<SubSeq(line, 1, e)>> \o splitWords(SubSeq(line, e + 1, Len(line)))

\* the value undefined of an optional string: a one-element sequence whose
\* element is no lexeme, so that it differs from every text
Undefined == <<"(undefined)">>

Coalesce_noDefault(a, b) == a

\* a ?? b
Coalesce(a, b) == IF a = Undefined THEN b ELSE a

\* ----------------------------------------------------------------------
\* ensemble.ts
\* ----------------------------------------------------------------------
extractBetween_lastClose(text, open, close) ==
    LET i == indexOf(text, open)
        j == lastIndexOf(text, close)
    IN  IF i = -1 \/ j = -1 \/ j <= i THEN Undefined
        ELSE trim(substring(text, i + 1, j))

extractBetween(text, open, close) ==
    LET i == indexOf(text, open)
        j == indexOf(text, close)
    IN  IF i = -1 \/ j = -1 \/ j <= i THEN Undefined
        ELSE trim(substring(text, i + 1, j))

\* One attempt of the fence expression FENCE lang NL body NL FENCE (lang without
\* newline or backtick, body lazy) anchored at 1-based position p.
\* Result: [ok, lang, body, next] where next is the 1-based position after the match.
FenceMatchAt(text, p) ==
    LET n == Len(text)
        stops == {i \in (p + 1)..n : text[i] = NL \/ HasBacktick(text[i])}
    IN  IF p > n \/ text[p] # FENCE \/ stops = {}
        THEN [ok |-> FALSE]
        ELSE LET nl == CHOOSE i \in stops : \A k \in stops : i <= k
                 ends == {q \in (nl + 1)..(n - 1) : text[q] = NL /\ text[q + 1] = FENCE}
             IN  IF text[nl] # NL \/ ends = {}
                 THEN [ok |-> FALSE]
                 ELSE LET q == CHOOSE i \in ends : \A k \in ends : i <= k
                      IN  [ok |-> TRUE,
                           lang |-> SubSeq(text, p + 1, nl - 1),
                           body |-> SubSeq(text, nl + 1, q - 1),
                           next |-> q + 2]

\* the while loop of extractFirstFencedCodeBlock, resumed at 1-based position p
RECURSIVE FenceLoop(_, _, _)
FenceLoop(text, want, p) ==
    IF p > Len(text) THEN Undefined
    ELSE LET m == FenceMatchAt(text, p)
         IN  IF ~m.ok THEN FenceLoop(text, want, p + 1)
             ELSE LET lang == trim(m.lang)
                      body == trim(m.body)
                  IN  IF body = <<>> THEN FenceLoop(text, want, m.next)
                      ELSE IF Len(want) = 0 THEN body
                      ELSE IF \E w \in 1..Len(want) :
                                  \/ (want[w] = "" /\ lang = <<>>)
                                  \/ (Len(lang) = 1 /\ ToLowerCase(lang[1]) = want[w])
                           THEN body
                      ELSE FenceLoop(text, want, m.next)

extractFirstFencedCodeBlock(text, langs) == FenceLoop(text, langs, 1)

looksLikeSpiceNetlist_directiveOnly(text) ==
    LET raw == splitLines(text)
        trimmed == [i \in 1..Len(raw) |-> trim(raw[i])]
        lines == SelectSeq(trimmed, LAMBDA l : l # <<>> /\ ~StartsWithCommentMark(l[1]))
    IN  \E i \in 1..Len(lines) :
            /\ IsDirectiveKeyword(lines[i][1])
            /\ (Len(lines[i]) = 1 \/ ~StartsWithWordChar(lines[i][2]))

looksLikeSpiceNetlist(text) ==
    LET raw == splitLines(text)
        trimmed == [i \in 1..Len(raw) |-> trim(raw[i])]
        lines == SelectSeq(trimmed, LAMBDA l : l # <<>> /\ ~StartsWithCommentMark(l[1]))
        hasDirective ==
            \E i \in 1..Len(lines) :
                /\ IsDirectiveKeyword(lines[i][1])
                /\ (Len(lines[i]) = 1 \/ ~StartsWithWordChar(lines[i][2]))
        hasComponent ==
            \E i \in 1..Len(lines) :
                /\ StartsWithDeviceLetter(lines[i][1])
                /\ Len(splitWords(lines[i])) >= 3
    IN  hasDirective /\ hasComponent

extractLikelyJson_braceFirst(text) ==
    LET fromFence == extractFirstFencedCodeBlock(text, <<"json">>)
        i == indexOf(text, "{")
        j == lastIndexOf(text, "}")
    IN  IF ~(i = -1 \/ j = -1 \/ j <= i) THEN trim(substring(text, i, j + 1))
        ELSE IF fromFence # Undefined /\ fromFence # <<>> THEN fromFence
        ELSE Undefined

extractLikelyJson(text) ==
    LET fromFence == extractFirstFencedCodeBlock(text, <<"json">>)
        i == indexOf(text, "{")
        j == lastIndexOf(text, "}")
    IN  IF fromFence # Undefined /\ fromFence # <<>> THEN fromFence
        ELSE IF i = -1 \/ j = -1 \/ j <= i THEN Undefined
        ELSE trim(substring(text, i, j + 1))

finalMarkdown_fenceFallback(text) ==
    Coalesce(extractBetween(text, TAG_MD_OPEN, TAG_MD_CLOSE),
             Coalesce(extractFirstFencedCodeBlock(text, <<"">>), <<>>))

\* const finalMarkdown = extractBetween(...) ?? ""
finalMarkdown(text) ==
    Coalesce(extractBetween(text, TAG_MD_OPEN, TAG_MD_CLOSE), <<>>)

spiceNetlist_untaggedPreferred(text) ==
    LET tagged == Coalesce(extractBetween(text, TAG_SPICE_OPEN, TAG_SPICE_CLOSE), <<>>)
        fenced == Coalesce(extractFirstFencedCodeBlock(text, <<"">>),
                           extractFirstFencedCodeBlock(text, <<"spice", "ngspice", "ltspice">>))
    IN  IF trim(tagged) = <<>>
        THEN IF fenced # Undefined /\ fenced # <<>> /\ looksLikeSpiceNetlist(fenced)
             THEN fenced
             ELSE tagged
        ELSE tagged

\* let spiceNetlist = extractBetween(...) ?? ""; if (!spiceNetlist.trim()) { ... }
spiceNetlist(text) ==
    LET tagged == Coalesce(extractBetween(text, TAG_SPICE_OPEN, TAG_SPICE_CLOSE), <<>>)
        fenced == Coalesce(extractFirstFencedCodeBlock(text, <<"spice", "ngspice", "ltspice">>),
                           extractFirstFencedCodeBlock(text, <<"">>))
    IN  IF trim(tagged) = <<>>
        THEN IF fenced # Undefined /\ fenced # <<>> /\ looksLikeSpiceNetlist(fenced)
             THEN fenced
             ELSE tagged
        ELSE tagged

\* let circuitJson = extractBetween(...) ?? ""; if (!circuitJson.trim()) { ... }
circuitJson(text) ==
    LET tagged == Coalesce(extractBetween(text, TAG_JSON_OPEN, TAG_JSON_CLOSE), <<>>)
    IN  IF trim(tagged) = <<>>
        THEN Coalesce(extractLikelyJson(text), <<>>)
        ELSE tagged

parseEnsembleOutputs(text) ==
    [finalMarkdown |-> finalMarkdown(text),
     spiceNetlist |-> spiceNetlist(text),
     circuitJson |-> circuitJson(text)]

\* ----------------------------------------------------------------------
\* Inputs of parseEnsembleOutputs
\* ----------------------------------------------------------------------
MaxParts == 3

Lexemes ==
    {TAG_MD_OPEN, TAG_MD_CLOSE, TAG_SPICE_OPEN, TAG_SPICE_CLOSE, TAG_JSON_OPEN,
     TAG_JSON_CLOSE, FENCE, NL, SP, "{", "}", "Hello", "R1", ".end", "*",
     "spice", "SPICE", "json", "text"}

PlausibleBody == <<"R1", SP, "Hello", SP, "Hello", NL, ".end">>
ProseBody == <<"Hello", SP, "Hello">>
DirectiveOnlyBody == <<"Hello", NL, ".end">>
JsonBody == <<"Hello", "{", "}">>

Fenced(lang, body) == <<FENCE>> \o lang \o <<NL>> \o body \o <<NL, FENCE>>

\* the pieces a response is assembled from: single lexemes, fenced blocks, tagged blocks
Pieces ==
    {<<t>> : t \in {TAG_MD_OPEN, TAG_MD_CLOSE, TAG_SPICE_OPEN, TAG_SPICE_CLOSE,
                    TAG_JSON_OPEN, TAG_JSON_CLOSE, FENCE, NL, "{", "}", "Hello"}}
    \cup {Fenced(<<"spice">>, PlausibleBody),
          Fenced(<<SP, "SPICE">>, <<"*", "Hello", NL>> \o PlausibleBody),
          Fenced(<<"spice">>, ProseBody),
          Fenced(<<>>, ProseBody),
          Fenced(<<>>, DirectiveOnlyBody),
          Fenced(<<>>, PlausibleBody),
          Fenced(<<"text">>, PlausibleBody),
          Fenced(<<"json">>, JsonBody),
          Fenced(<<"json">>, <<>>),
          <<TAG_MD_OPEN, SP, "Hello", NL, TAG_MD_CLOSE>>,
          <<TAG_MD_OPEN, "Hello", TAG_MD_CLOSE>>,
          <<TAG_SPICE_OPEN, "R1", TAG_SPICE_CLOSE>>,
          <<TAG_JSON_OPEN, "{", "}", TAG_JSON_CLOSE>>}

NotReturned == [returned |-> FALSE]

Init ==
    /\ response = <<>>
    /\ parts = 0
    /\ outputs = NotReturned
    /\ netlist = <<>>
    /\ written = 0
    /\ stage = "text"
    /\ comps = <<>>
    /\ dot = <<>>
    /\ netlistText = <<>>
    /\ appended = 0
    /\ phase = "input"
    /\ maxFiles = 0
    /\ maxTotalBytes = 0
    /\ cursor = 1
    /\ copied = <<>>
    /\ missing = <<>>
    /\ rewriteMap = <<>>
    /\ totalBytes = 0
    /\ bundledNetlist = <<>>
    /\ enabledProviders = <<>>
    /\ jobs = <<>>
    /\ answers = <<>>
    /\ pc = "idle"
    /\ requests = <<>>
    /\ ensemble = <<>>
    /\ files = <<>>
    /\ finalNetlist = <<"(not yet)">>
    /\ baselineNetlist = <<>>
    /\ sourceLabel = "none"
    /\ schematicDot = <<>>
    /\ argv = {}
    /\ opts = <<>>
    /\ cfg = <<>>
    /\ passed = <<>>
    /\ commandPc = "start"
    /\ requestedPort = 0
    /\ tried = <<>>
    /\ boundPort = 0
    /\ listenPc = "idle"
    /\ thrown = "none"
    /\ historyArg = "10"
    /\ maxHistory = 0
    /\ saving = FALSE
    /\ turns = <<>>
    /\ currentProvider = "openai"
    /\ prompted = [included |-> <<>>, before |-> <<>>]
    /\ artifacts = <<>>
    /\ sent = 0
    /\ chatPc = "start"
    /\ allowedRunDirs = {}
    /\ returnedDirs = {}
    /\ runRequests = 0
    /\ lastResponse = [endpoint |-> "none", path |-> <<>>, status |-> 0]

\* the ensembling provider's reply grows by one piece
Receive(piece) ==
    /\ outputs = NotReturned
    /\ parts < MaxParts
    /\ response' = response \o piece
    /\ parts' = parts + 1
    /\ UNCHANGED <<outputs, netlistVars, bundleVars, runVars, commandVars>>

\* const out = parseEnsembleOutputs(ensemble.text)
Parse ==
    /\ outputs = NotReturned
    /\ outputs' = [returned |-> TRUE] @@ parseEnsembleOutputs(response)
    /\ UNCHANGED <<response, parts, netlistVars, bundleVars, runVars, commandVars>>

NextEnsemble ==
    \/ \E piece \in Pieces : Receive(piece)
    \/ Parse

SpecEnsemble == Init /\ [][NextEnsemble]_vars

\* ----------------------------------------------------------------------
\* netlist/parse.ts
\* ----------------------------------------------------------------------
\* /\d/.test(tok) for one lexeme
ContainsDigit(t) ==
    t \in {"R1", "R2", "C1", "V1", "X1", "M1", "0", "1k", "1u", "1m", "10m", "5"}

\* tok.includes("=") for one lexeme
ContainsEquals(t) == t \in {"k=v"}

\* String.prototype.toUpperCase on one lexeme
ToUpperCase(t) ==
    CASE t = "dc" -> "DC"
      [] t = "in" -> "IN"
      [] t = "out" -> "OUT"
      [] t = "out+" -> "OUT+"
      [] t = "out-" -> "OUT-"
      [] t = "1k" -> "1K"
      [] t = "1u" -> "1U"
      [] t = "1m" -> "1M"
      [] t = "10m" -> "10M"
      [] t = "k=v" -> "K=V"
      [] t = "p" -> "P"
      [] t = "q" -> "Q"
      [] t = "r" -> "R"
      [] t = "s" -> "S"
      [] t = "t" -> "T"
      [] t = ".end" -> ".END"
      [] t = ".tran" -> ".TRAN"
      [] OTHER -> t

\* line.startsWith(".") for the first lexeme of a line
StartsWithDot(t) == t \in {".end", ".tran"}

\* a word is a run of adjacent lexemes; the three tests of the node loop
LooksLikeValue(word) == \E i \in 1..Len(word) : ContainsDigit(word[i])
LooksLikeAssignment(word) == \E i \in 1..Len(word) : ContainsEquals(word[i])

IsDcKeyword_caseSensitive(word) == Len(word) = 1 /\ word[1] = "DC"

IsDcKeyword(word) == Len(word) = 1 /\ ToUpperCase(word[1]) = "DC"

\* the for loop over parts[k], k being the 1-based index of the next token
RECURSIVE CollectNodes_noCap(_, _, _)
CollectNodes_noCap(tokens, k, nodes) ==
    IF k > Len(tokens) THEN nodes
    ELSE LET tok == tokens[k]
         IN  IF Len(nodes) >= 2 /\ LooksLikeValue(tok) THEN nodes
             ELSE IF Len(nodes) >= 2 /\ LooksLikeAssignment(tok) THEN nodes
             ELSE IF Len(nodes) >= 2 /\ IsDcKeyword(tok) THEN nodes
             ELSE CollectNodes_noCap(tokens, k + 1, Append(nodes, tok))

RECURSIVE CollectNodes(_, _, _)
CollectNodes(tokens, k, nodes) ==
    IF k > Len(tokens) THEN nodes
    ELSE LET tok == tokens[k]
         IN  IF Len(nodes) >= 2 /\ LooksLikeValue(tok) THEN nodes
             ELSE IF Len(nodes) >= 2 /\ LooksLikeAssignment(tok) THEN nodes
             ELSE IF Len(nodes) >= 2 /\ IsDcKeyword(tok) THEN nodes
             ELSE IF Len(nodes) + 1 >= 6 THEN Append(nodes, tok)
             ELSE CollectNodes(tokens, k + 1, Append(nodes, tok))

\* one iteration of the loop over the lines: the components the line adds
ParseLine(line0) ==
    LET line == trim(line0)
    IN  IF line = <<>> THEN <<>>
        ELSE IF StartsWithCommentMark(line[1]) THEN <<>>
        ELSE IF StartsWithDot(line[1]) THEN <<>>
        ELSE LET semi == indexOf(line, ";")
                 body == trim(IF semi = -1 THEN line ELSE substring(line, 0, semi))
             IN  IF body = <<>> THEN <<>>
                 ELSE LET tokens == splitWords(body)
                          ref == tokens[1]
                          nodes == CollectNodes(tokens, 2, <<>>)
                      IN  IF Len(nodes) >= 2
                          THEN <<[ref |-> ref, nodes |-> nodes, raw |-> body]>>
                          ELSE <<>>

RECURSIVE ParseLines(_)
ParseLines(lines) ==
    IF lines = <<>> THEN <<>>
    ELSE ParseLine(Head(lines)) \o ParseLines(Tail(lines))

parseNetlist(text) == ParseLines(splitLines(text))

\* ----------------------------------------------------------------------
\* netlist/graph.ts
\* ----------------------------------------------------------------------
\* s.replace(/[^a-zA-Z0-9_]/g, "_") for one lexeme
SanitizeLexeme(t) ==
    CASE t = "out+" -> "out_"
      [] t = "out-" -> "out_"
      [] t = "k=v" -> "k_v"
      [] t = ".end" -> "_end"
      [] t = ".tran" -> "_tran"
      [] t = "*" -> "_"
      [] t = ";" -> "_"
      [] OTHER -> t

sanitize(word) == [i \in 1..Len(word) |-> SanitizeLexeme(word[i])]

RECURSIVE Flatten(_)
Flatten(ss) == IF ss = <<>> THEN <<>> ELSE Head(ss) \o Flatten(Tail(ss))

\* the elements of a Set filled by add() in the order of seq: insertion order
RECURSIVE InsertionOrder(_)
InsertionOrder(seq) ==
    IF seq = <<>> THEN <<>>
    ELSE LET front == InsertionOrder(SubSeq(seq, 1, Len(seq) - 1))
             last == seq[Len(seq)]
         IN  IF \E i \in 1..Len(front) : front[i] = last THEN front ELSE Append(front, last)

NetId(n) == <<"net_">> \o sanitize(n)
CompId(ref) == <<"comp_">> \o sanitize(ref)

\* the statements of the DOT text, in the order they are written
netlistToDot(cs) ==
    LET nets == InsertionOrder(Flatten([i \in 1..Len(cs) |-> cs[i].nodes]))
        netStmts == [i \in 1..Len(nets) |->
                        [kind |-> "node", id |-> NetId(nets[i]), label |-> nets[i],
                         shape |-> "ellipse"]]
        compStmts == [i \in 1..Len(cs) |->
                        [kind |-> "node", id |-> CompId(cs[i].ref), label |-> cs[i].ref,
                         shape |-> "box"]]
        edgeStmts == Flatten([i \in 1..Len(cs) |->
                        [k \in 1..Len(cs[i].nodes) |->
                            [kind |-> "edge", from |-> NetId(cs[i].nodes[k]),
                             to |-> CompId(cs[i].ref)]]])
    IN  <<[kind |-> "line", text |-> "digraph G {"],
          [kind |-> "line", text |-> "rankdir=LR;"],
          [kind |-> "line", text |-> "graph [splines=true, overlap=false];"],
          [kind |-> "line", text |-> "node  [fontsize=10];"],
          [kind |-> "line", text |-> "// Nets"]>>
        \o netStmts
        \o <<[kind |-> "line", text |-> "// Components"]>>
        \o compStmts
        \o <<[kind |-> "line", text |-> "// Edges (net -> component)"]>>
        \o edgeStmts
        \o <<[kind |-> "line", text |-> "}"]>>

\* ----------------------------------------------------------------------
\* Inputs of parseNetlist
\* ----------------------------------------------------------------------
MaxWritten == 3

Spaced(words) == Tail(Flatten([i \in 1..Len(words) |-> <<SP, words[i]>>]))

\* pieces appended to the netlist text as they are
NetWords ==
    {<<NL>>, <<SP>>, <<";">>, <<"*">>, <<"R1">>,
     <<SP, "in">>, <<SP, "1k">>, <<SP, "DC">>, <<SP, "k=v">>}

\* whole lines, started on a new line of the netlist text
NetLines ==
    {Spaced(<<"R1", "in", "out", "1k">>),
     Spaced(<<"C1", "out", "0", "1u">>),
     Spaced(<<".tran", "1m", "10m">>) \o <<NL, ".end">>,
     Spaced(<<"X1", "in", "out", "p", "q", "r", "s", "t">>),
     Spaced(<<"V1", "in", "0", "dc", "5">>),
     Spaced(<<"M1", "out+", "out-", "in", "k=v">>),
     Spaced(<<"R2", "in">>),
     <<SP, SP, "R2", SP, SP, "in", SP, "out", SP>>}

Write(piece) ==
    /\ stage = "text"
    /\ written < MaxWritten
    /\ netlist' = netlist \o piece
    /\ written' = written + 1
    /\ UNCHANGED <<stage, comps, dot, ensembleVars, bundleVars, runVars, commandVars>>

WriteLine(line) ==
    /\ stage = "text"
    /\ written < MaxWritten
    /\ netlist' = IF netlist = <<>> THEN line ELSE netlist \o <<NL>> \o line
    /\ written' = written + 1
    /\ UNCHANGED <<stage, comps, dot, ensembleVars, bundleVars, runVars, commandVars>>

\* let comps = parseNetlist(schematicNetlist)
ParseNetlist ==
    /\ stage = "text"
    /\ comps' = parseNetlist(netlist)
    /\ stage' = "parsed"
    /\ UNCHANGED <<netlist, written, dot, ensembleVars, bundleVars, runVars, commandVars>>

\* let dot = netlistToDot(comps)
NetlistToDot ==
    /\ stage = "parsed"
    /\ dot' = netlistToDot(comps)
    /\ stage' = "drawn"
    /\ UNCHANGED <<netlist, written, comps, ensembleVars, bundleVars, runVars, commandVars>>

NextNetlist ==
    \/ \E piece \in NetWords : Write(piece)
    \/ \E line \in NetLines : WriteLine(line)
    \/ ParseNetlist
    \/ NetlistToDot

SpecNetlist == Init /\ [][NextNetlist]_vars

\* ----------------------------------------------------------------------
\* Vocabulary of the properties
\* ----------------------------------------------------------------------
IsText(s) == s \in Seq(Lexemes)

Positions(text, tok) == {i \in 1..Len(text) : text[i] = tok}

Least(S) == CHOOSE i \in S : \A k \in S : i <= k
Greatest(S) == CHOOSE i \in S : \A k \in S : i >= k

\* both tags occur and the first close tag lies strictly after the first open tag
TagsInOrder(text, open, close) ==
    /\ Positions(text, open) # {}
    /\ Positions(text, close) # {}
    /\ Least(Positions(text, close)) > Least(Positions(text, open))

\* t is s without its leading and trailing white space
IsTrimmed(t, s) ==
    \E a \in 0..Len(s) : \E b \in a..Len(s) :
        /\ t = SubSeq(s, a + 1, b)
        /\ \A k \in 1..a : IsSpace(s[k])
        /\ \A k \in (b + 1)..Len(s) : IsSpace(s[k])
        /\ t # <<>> => ~IsSpace(t[1]) /\ ~IsSpace(t[Len(t)])

\* the text between the first open tag and the first close tag
BetweenFirst(text, open, close) ==
    SubSeq(text, Least(Positions(text, open)) + 1, Least(Positions(text, close)) - 1)

\* v is what the tagged block of the response holds; <<>> when there is no block
IsTaggedValue(v, text, open, close) ==
    IF TagsInOrder(text, open, close)
    THEN IsTrimmed(v, BetweenFirst(text, open, close))
    ELSE v = <<>>

HasNo(text, toks) == \A i \in 1..Len(text) : text[i] \notin toks

AnyTag == {TAG_MD_OPEN, TAG_MD_CLOSE, TAG_SPICE_OPEN, TAG_SPICE_CLOSE,
           TAG_JSON_OPEN, TAG_JSON_CLOSE}

\* ----------------------------------------------------------------------
\* C1: parseEnsembleOutputs returns, for every response, a record whose three
\* fields are texts, never undefined; with nothing to recover from (no tag,
\* no fence, no brace) every field is the empty text.
\* ----------------------------------------------------------------------
C1_ParserTotal ==
    outputs.returned =>
        /\ DOMAIN outputs = {"returned", "finalMarkdown", "spiceNetlist", "circuitJson"}
        /\ IsText(outputs.finalMarkdown)
        /\ IsText(outputs.spiceNetlist)
        /\ IsText(outputs.circuitJson)
        /\ HasNo(response, AnyTag \cup {FENCE, "{", "}"}) =>
               /\ outputs.finalMarkdown = <<>>
               /\ outputs.spiceNetlist = <<>>
               /\ outputs.circuitJson = <<>>

\* a response with no recoverable field at all has been parsed
C1_Witness ==
    /\ outputs.returned
    /\ response # <<>>
    /\ HasNo(response, AnyTag \cup {FENCE, "{", "}"})

\* ----------------------------------------------------------------------
\* C2: each field's tagged-block extraction uses the first open tag and the
\* first close tag: the field is the trimmed text between them when both
\* exist, the close tag lies strictly after the open tag and that text is not
\* blank; when the tags are not in that order the field is empty unless a
\* fallback (fence or brace span, absent here) supplies it.
\* ----------------------------------------------------------------------
C2_TaggedExtraction ==
    outputs.returned =>
        /\ IsTaggedValue(outputs.finalMarkdown, response, TAG_MD_OPEN, TAG_MD_CLOSE)
        /\ (TagsInOrder(response, TAG_SPICE_OPEN, TAG_SPICE_CLOSE)
              /\ ~IsTrimmed(<<>>, BetweenFirst(response, TAG_SPICE_OPEN, TAG_SPICE_CLOSE)))
             => IsTaggedValue(outputs.spiceNetlist, response, TAG_SPICE_OPEN, TAG_SPICE_CLOSE)
        /\ (TagsInOrder(response, TAG_JSON_OPEN, TAG_JSON_CLOSE)
              /\ ~IsTrimmed(<<>>, BetweenFirst(response, TAG_JSON_OPEN, TAG_JSON_CLOSE)))
             => IsTaggedValue(outputs.circuitJson, response, TAG_JSON_OPEN, TAG_JSON_CLOSE)
        /\ HasNo(response, {FENCE})
             => IsTaggedValue(outputs.spiceNetlist, response, TAG_SPICE_OPEN, TAG_SPICE_CLOSE)
        /\ HasNo(response, {FENCE, "{", "}"})
             => IsTaggedValue(outputs.circuitJson, response, TAG_JSON_OPEN, TAG_JSON_CLOSE)

\* a close tag comes first, a complete block follows, and the field is empty
C2_Witness ==
    /\ outputs.returned
    /\ HasNo(response, {FENCE})
    /\ Cardinality(Positions(response, TAG_SPICE_CLOSE)) = 2
    /\ Positions(response, TAG_SPICE_OPEN) # {}
    /\ Least(Positions(response, TAG_SPICE_CLOSE)) < Least(Positions(response, TAG_SPICE_OPEN))
    /\ Greatest(Positions(response, TAG_SPICE_CLOSE)) > Least(Positions(response, TAG_SPICE_OPEN)) + 1
    /\ outputs.spiceNetlist = <<>>

\* ----------------------------------------------------------------------
\* Fenced blocks of a response, as the properties speak of them
\* ----------------------------------------------------------------------
\* the successive matches of the fence expression, left to right
RECURSIVE FencesFrom(_, _)
FencesFrom(text, p) ==
    IF p > Len(text) THEN <<>>
    ELSE LET m == FenceMatchAt(text, p)
         IN  IF ~m.ok THEN FencesFrom(text, p + 1)
             ELSE <<[lang |-> m.lang, body |-> m.body]>> \o FencesFrom(text, m.next)

Fences(text) == FencesFrom(text, 1)

IsBlank(s) == \A i \in 1..Len(s) : IsSpace(s[i])

\* the language part is one word, in any case, of the given language names
HasLang(f, names) ==
    \E i \in 1..Len(f.lang) :
        /\ ToLowerCase(f.lang[i]) \in names
        /\ \A k \in 1..Len(f.lang) : k # i => IsSpace(f.lang[k])

SpiceLangs == {"spice", "ngspice", "ltspice"}

IsSpiceFence(f) == HasLang(f, SpiceLangs)
IsJsonFence(f) == HasLang(f, {"json"})
IsUntaggedFence(f) == IsBlank(f.lang)

\* position i of s is the first non-blank position of its line
OpensLine(s, i) ==
    /\ ~IsSpace(s[i])
    /\ \A k \in 1..(i - 1) : (\A m \in k..(i - 1) : s[m] # NL) => s[k] = SP

\* some line of s starts with an accepted dot-directive
HasDirectiveLine(s) ==
    \E i \in 1..Len(s) :
        /\ OpensLine(s, i)
        /\ IsDirectiveKeyword(s[i])
        /\ (i = Len(s) \/ ~StartsWithWordChar(s[i + 1]))

\* some line of s is a device-letter reference followed by two more tokens
HasComponentLine(s) ==
    \E i \in 1..Len(s) :
        /\ OpensLine(s, i)
        /\ StartsWithDeviceLetter(s[i])
        /\ \E p \in (i + 1)..Len(s) : \E q \in (p + 2)..(Len(s) - 1) :
               /\ \A m \in i..(q + 1) : s[m] # NL
               /\ s[p] = SP /\ ~IsSpace(s[p + 1])
               /\ s[q] = SP /\ ~IsSpace(s[q + 1])

Plausible(s) == HasDirectiveLine(s) /\ HasComponentLine(s)

\* no <spice_netlist> block was extracted from the response
NoTaggedSpice(text) ==
    \/ ~TagsInOrder(text, TAG_SPICE_OPEN, TAG_SPICE_CLOSE)
    \/ IsBlank(BetweenFirst(text, TAG_SPICE_OPEN, TAG_SPICE_CLOSE))

NoTaggedJson(text) ==
    \/ ~TagsInOrder(text, TAG_JSON_OPEN, TAG_JSON_CLOSE)
    \/ IsBlank(BetweenFirst(text, TAG_JSON_OPEN, TAG_JSON_CLOSE))

\* the fences of text that satisfy P, in order
FencesWith(text, P(_)) == SelectSeq(Fences(text), P)

\* the response holds exactly two fences, spice-tagged at index t and an
\* untagged one holding only prose at index u
TaggedAndProse(text, t, u) ==
    /\ Len(Fences(text)) = 2
    /\ {t, u} = {1, 2}
    /\ IsSpiceFence(Fences(text)[t])
    /\ IsUntaggedFence(Fences(text)[u])
    /\ ~IsBlank(Fences(text)[u].body)
    /\ ~HasDirectiveLine(Fences(text)[u].body)
    /\ ~HasComponentLine(Fences(text)[u].body)

\* ----------------------------------------------------------------------
\* C3 as stated: with no tagged SPICE block, one spice-tagged fence and one
\* untagged fence holding only prose, in either order, spiceNetlist is the body
\* of the spice-tagged fence.
\* ----------------------------------------------------------------------
C3_AsStated ==
    (outputs.returned /\ NoTaggedSpice(response)) =>
        \A t, u \in {1, 2} :
            TaggedAndProse(response, t, u) =>
                IsTrimmed(outputs.spiceNetlist, Fences(response)[t].body)

\* ----------------------------------------------------------------------
\* C3 amended: in that situation spiceNetlist is the body of the spice-tagged
\* fence when that body passes the plausibility check and is empty when it
\* does not; it is never the body of the untagged fence.
\* ----------------------------------------------------------------------
C3_FallbackOrdering ==
    (outputs.returned /\ NoTaggedSpice(response)) =>
        \A t, u \in {1, 2} :
            TaggedAndProse(response, t, u) =>
                /\ IF Plausible(Fences(response)[t].body)
                   THEN IsTrimmed(outputs.spiceNetlist, Fences(response)[t].body)
                   ELSE outputs.spiceNetlist = <<>>
                /\ ~IsTrimmed(outputs.spiceNetlist, Fences(response)[u].body)

\* the prose fence comes first and the spice-tagged fence after it is returned
C3_Witness ==
    /\ outputs.returned
    /\ NoTaggedSpice(response)
    /\ TaggedAndProse(response, 2, 1)
    /\ outputs.spiceNetlist # <<>>
    /\ IsTrimmed(outputs.spiceNetlist, Fences(response)[2].body)

\* ----------------------------------------------------------------------
\* C4 as stated: with no tagged SPICE block and no spice-tagged fence,
\* spiceNetlist is the body of the first fence, whatever its language tag,
\* whose body passes the plausibility check.
\* ----------------------------------------------------------------------
PlausibleFence(f) == Plausible(f.body)

C4_AnyLanguageFence ==
    (/\ outputs.returned
     /\ NoTaggedSpice(response)
     /\ FencesWith(response, IsSpiceFence) = <<>>
     /\ FencesWith(response, PlausibleFence) # <<>>)
    => IsTrimmed(outputs.spiceNetlist, FencesWith(response, PlausibleFence)[1].body)

\* ----------------------------------------------------------------------
\* C5: a spiceNetlist that does not come from the <spice_netlist> block has a
\* directive line and a component line; when no fence of the response passes
\* that check, a lone failing fence included, spiceNetlist stays empty.
\* ----------------------------------------------------------------------
C5_PlausibilityGuard ==
    (outputs.returned /\ NoTaggedSpice(response)) =>
        /\ outputs.spiceNetlist # <<>> =>
               /\ HasDirectiveLine(outputs.spiceNetlist)
               /\ HasComponentLine(outputs.spiceNetlist)
               /\ \E k \in 1..Len(Fences(response)) :
                      IsTrimmed(outputs.spiceNetlist, Fences(response)[k].body)
        /\ FencesWith(response, PlausibleFence) = <<>> => outputs.spiceNetlist = <<>>

\* the only fence of the response has a directive line but no component line
C5_Witness ==
    /\ outputs.returned
    /\ NoTaggedSpice(response)
    /\ Len(Fences(response)) = 1
    /\ HasDirectiveLine(Fences(response)[1].body)
    /\ ~HasComponentLine(Fences(response)[1].body)
    /\ outputs.spiceNetlist = <<>>

\* ----------------------------------------------------------------------
\* Brace span of a response
\* ----------------------------------------------------------------------
BracesInOrder(text) ==
    /\ Positions(text, "{") # {}
    /\ Positions(text, "}") # {}
    /\ Least(Positions(text, "{")) < Greatest(Positions(text, "}"))

BraceSpan(text) ==
    SubSeq(text, Least(Positions(text, "{")), Greatest(Positions(text, "}")))

NonBlankJsonFence(f) == IsJsonFence(f) /\ ~IsBlank(f.body)

\* ----------------------------------------------------------------------
\* C6 as stated: when the <circuit_json> block is empty and the response has
\* a fence tagged json, circuitJson is the body of the first such fence (or,
\* counting a blank body as a failed strategy, the brace span or nothing).
\* ----------------------------------------------------------------------
C6_AsStated ==
    (/\ outputs.returned
     /\ NoTaggedJson(response)
     /\ FencesWith(response, IsJsonFence) # <<>>)
    => LET first == FencesWith(response, IsJsonFence)[1].body
       IN  \/ ~IsBlank(first) /\ IsTrimmed(outputs.circuitJson, first)
           \/ /\ IsBlank(first)
              /\ IF BracesInOrder(response)
                 THEN outputs.circuitJson = BraceSpan(response)
                 ELSE outputs.circuitJson = <<>>

\* ----------------------------------------------------------------------
\* C6 amended: circuitJson is (1) the <circuit_json> block when it is not
\* blank; (2) otherwise the body of the first json-tagged fence whose body is
\* not blank; (3) when there is no such fence, the text from the first "{" to
\* the last "}" of the whole response; and empty when no "{" precedes a "}".
\* ----------------------------------------------------------------------
C6_JsonPrecedence ==
    outputs.returned =>
        IF ~NoTaggedJson(response)
        THEN IsTaggedValue(outputs.circuitJson, response, TAG_JSON_OPEN, TAG_JSON_CLOSE)
        ELSE IF FencesWith(response, NonBlankJsonFence) # <<>>
        THEN IsTrimmed(outputs.circuitJson, FencesWith(response, NonBlankJsonFence)[1].body)
        ELSE IF BracesInOrder(response)
        THEN outputs.circuitJson = BraceSpan(response)
        ELSE outputs.circuitJson = <<>>

\* a json fence wins over braces that enclose it
C6_Witness ==
    /\ outputs.returned
    /\ NoTaggedJson(response)
    /\ FencesWith(response, NonBlankJsonFence) # <<>>
    /\ BracesInOrder(response)
    /\ BraceSpan(response) # outputs.circuitJson
    /\ response[1] = "{"
    /\ response[Len(response)] = "}"

\* ----------------------------------------------------------------------
\* C7: finalMarkdown is non-empty only if the <final_markdown> block was
\* extracted, and is that block whatever fences and braces the response
\* holds; a response made of that block alone gives the block content and two
\* empty fields.
\* ----------------------------------------------------------------------
C7_MarkdownNoFallback ==
    outputs.returned =>
        /\ outputs.finalMarkdown # <<>> => TagsInOrder(response, TAG_MD_OPEN, TAG_MD_CLOSE)
        /\ IsTaggedValue(outputs.finalMarkdown, response, TAG_MD_OPEN, TAG_MD_CLOSE)
        /\ (/\ TagsInOrder(response, TAG_MD_OPEN, TAG_MD_CLOSE)
            /\ HasNo(response, {TAG_SPICE_OPEN, TAG_SPICE_CLOSE, TAG_JSON_OPEN,
                                TAG_JSON_CLOSE, FENCE, "{", "}"}))
           => /\ outputs.spiceNetlist = <<>>
              /\ outputs.circuitJson = <<>>
        /\ response = <<TAG_MD_OPEN, "Hello", TAG_MD_CLOSE>> =>
               outputs = [returned |-> TRUE, finalMarkdown |-> <<"Hello">>,
                          spiceNetlist |-> <<>>, circuitJson |-> <<>>]

\* no <final_markdown> block, yet a fence and braces the other fields recover from
C7_Witness ==
    /\ outputs.returned
    /\ ~TagsInOrder(response, TAG_MD_OPEN, TAG_MD_CLOSE)
    /\ outputs.finalMarkdown = <<>>
    /\ outputs.spiceNetlist # <<>>
    /\ outputs.circuitJson # <<>>
    /\ FencesWith(response, IsUntaggedFence) # <<>>

\* ----------------------------------------------------------------------
\* Vocabulary of the netlist properties
\* ----------------------------------------------------------------------
\* the line is neither blank, nor a comment, nor a directive
IsComponentLine(line0) ==
    /\ ~IsBlank(line0)
    /\ trim(line0)[1] \notin {"*", ";"}
    /\ ~StartsWithDot(trim(line0)[1])

\* the line without its inline comment and surrounding white space
LineBody(line0) ==
    LET line == trim(line0)
    IN  IF Positions(line, ";") = {} THEN line
        ELSE trim(SubSeq(line, 1, Least(Positions(line, ";")) - 1))

\* the bodies of the lines that carry a reference and at least two more tokens
ExpectedBodies(text) ==
    LET lines == splitLines(text)
        bodies == [i \in 1..Len(lines) |->
                      IF IsComponentLine(lines[i]) THEN LineBody(lines[i]) ELSE <<>>]
    IN  SelectSeq(bodies, LAMBDA b : Len(splitWords(b)) >= 3)

\* the token contains a digit, contains "=", or is DC in either case
IsStopToken(word) ==
    \/ \E i \in 1..Len(word) : ContainsDigit(word[i])
    \/ \E i \in 1..Len(word) : ContainsEquals(word[i])
    \/ word \in {<<"DC">>, <<"dc">>}

\* ----------------------------------------------------------------------
\* C8: every Component parseNetlist returns has between 2 and 6 nodes, and
\* the Components are exactly those of the lines with at least two node
\* tokens: a line with fewer yields no Component.
\* ----------------------------------------------------------------------
C8_NodeCount ==
    stage # "text" =>
        /\ \A i \in 1..Len(comps) :
               Len(comps[i].nodes) >= 2 /\ Len(comps[i].nodes) <= 6
        /\ [i \in 1..Len(comps) |-> comps[i].raw] = ExpectedBodies(netlist)

\* a line with seven candidate node tokens gave six nodes and a line with one
\* node token gave nothing
C8_Witness ==
    /\ stage # "text"
    /\ Len(comps) = 1
    /\ Len(comps[1].nodes) = 6
    /\ Len(splitWords(comps[1].raw)) > 7
    /\ \E i \in 1..Len(splitLines(netlist)) :
           /\ IsComponentLine(splitLines(netlist)[i])
           /\ Len(splitWords(LineBody(splitLines(netlist)[i]))) = 2

NodeNames(cs) == {cs[i].nodes[k] : <<i, k>> \in
                     {<<i, k>> \in (1..Len(cs)) \X (1..6) : k <= Len(cs[i].nodes)}}

Statements(d, kind) == SelectSeq(d, LAMBDA st : st.kind = kind)

NetNodes(d) == {st.id : st \in {d[i] : i \in {i \in 1..Len(d) :
                    d[i].kind = "node" /\ d[i].shape = "ellipse"}}}
CompNodes(d) == {st.id : st \in {d[i] : i \in {i \in 1..Len(d) :
                    d[i].kind = "node" /\ d[i].shape = "box"}}}

RECURSIVE SumNodes(_)
SumNodes(cs) == IF cs = <<>> THEN 0 ELSE Len(Head(cs).nodes) + SumNodes(Tail(cs))

ExampleNetlist ==
    Spaced(<<"R1", "in", "out", "1k">>) \o <<NL>>
    \o Spaced(<<"C1", "out", "0", "1u">>) \o <<NL>>
    \o Spaced(<<".tran", "1m", "10m">>) \o <<NL, ".end">>

\* the DOT text declares one net statement per distinct node name and one
\* edge statement per node of each component
DotStatementCounts ==
    stage = "drawn" =>
        /\ Cardinality({i \in 1..Len(dot) : dot[i].kind = "node" /\ dot[i].shape = "ellipse"})
               = Cardinality(NodeNames(comps))
        /\ Len(Statements(dot, "edge")) = SumNodes(comps)

\* ----------------------------------------------------------------------
\* C10: the graph built from parseNetlist's output has exactly one net node
\* per distinct node name and sum(len(c.nodes)) edges, each from a net node
\* to a component node; the example netlist gives two components, the net
\* nodes in, out and 0 and four edges; no component gives no node, no edge.
\* ----------------------------------------------------------------------
C10_GraphRoundTrip ==
    stage = "drawn" =>
        /\ Cardinality(NetNodes(dot)) = Cardinality(NodeNames(comps))
        /\ Len(Statements(dot, "edge")) = SumNodes(comps)
        /\ \A i \in 1..Len(dot) :
               dot[i].kind = "edge" =>
                   dot[i].from \in NetNodes(dot) /\ dot[i].to \in CompNodes(dot)
        /\ comps = <<>> => Statements(dot, "node") = <<>> /\ Statements(dot, "edge") = <<>>
        /\ netlist = ExampleNetlist =>
               /\ Len(comps) = 2
               /\ NetNodes(dot) = {<<"net_", "in">>, <<"net_", "out">>, <<"net_", "0">>}
               /\ Len(Statements(dot, "edge")) = 4

\* ----------------------------------------------------------------------
\* The include bundler (bundleSpiceIncludes): strings and POSIX paths.
\* A path string is a sequence of lexemes in which "/" separates segments;
\* a segment is the (possibly empty) sequence of lexemes between separators.
\* ----------------------------------------------------------------------
DQ == "\""
SQ == "'"
SLASH == "/"
BACKSLASH == "\\"
DOT == "."
DOTDOT == ".."

\* text.indexOf(tok, from)
indexOfFrom(text, tok, from) ==
    LET hits == {i \in from..(Len(text) - 1) : text[i + 1] = tok}
    IN IF hits = {} THEN -1 ELSE CHOOSE i \in hits : \A j \in hits : i <= j

\* s.split(sep) for a separator that is one of the lexemes in seps
RECURSIVE splitOn(_, _)
splitOn(s, seps) ==
    LET hits == {i \in 1..Len(s) : s[i] \in seps}
    IN IF hits = {} THEN <<s>>
       ELSE LET i == CHOOSE h \in hits : \A j \in hits : h <= j
            IN <<SubSeq(s, 1, i - 1)>> \o splitOn(SubSeq(s, i + 1, Len(s)), seps)

\* parts.join(sep)
RECURSIVE joinWith(_, _)
joinWith(segs, sep) ==
    IF segs = <<>> THEN <<>>
    ELSE IF Len(segs) = 1 THEN segs[1]
    ELSE segs[1] \o sep \o joinWith(Tail(segs), sep)

NonEmpty(seg) == seg # <<>>

\* path.isAbsolute(p)
isAbsolute(p) == Len(p) > 0 /\ p[1] = SLASH

\* the normalisation path.resolve and path.join apply: "." and empty segments
\* disappear, ".." removes the segment before it (and nothing above the root)
RECURSIVE NormalizeSegs(_, _)
NormalizeSegs(segs, acc) ==
    IF segs = <<>> THEN acc
    ELSE LET seg == Head(segs)
         IN IF seg = <<>> \/ seg = <<DOT>> THEN NormalizeSegs(Tail(segs), acc)
            ELSE IF seg = <<DOTDOT>>
                 THEN NormalizeSegs(Tail(segs),
                                    IF acc = <<>> THEN acc ELSE SubSeq(acc, 1, Len(acc) - 1))
            ELSE NormalizeSegs(Tail(segs), Append(acc, seg))

\* an absolute path string from its segments
AbsPath(segs) == <<SLASH>> \o joinWith(segs, <<SLASH>>)

\* the segments of the file an absolute path string names
AbsSegs(p) == NormalizeSegs(splitOn(p, {SLASH}), <<>>)

\* path.resolve(dir, p) for an absolute dir
resolve(dir, p) ==
    IF isAbsolute(p) THEN AbsPath(AbsSegs(p))
    ELSE AbsPath(NormalizeSegs(splitOn(dir, {SLASH}) \o splitOn(p, {SLASH}), <<>>))

\* path.join(dir, rel) for an absolute dir
join(dir, rel) == AbsPath(NormalizeSegs(splitOn(dir, {SLASH}) \o splitOn(rel, {SLASH}), <<>>))

\* path.dirname(p) for the absolute path of a file
dirname(p) ==
    LET segs == AbsSegs(p) IN AbsPath(SubSeq(segs, 1, Len(segs) - 1))

\* path.basename(p)
basename(p) ==
    LET segs == SelectSeq(splitOn(p, {SLASH}), NonEmpty)
    IN IF segs = <<>> THEN <<>> ELSE segs[Len(segs)]

\* path.relative(from, to) for two absolute paths
RECURSIVE CommonPrefixLen(_, _)
CommonPrefixLen(a, b) ==
    IF a = <<>> \/ b = <<>> \/ Head(a) # Head(b) THEN 0
    ELSE 1 + CommonPrefixLen(Tail(a), Tail(b))

relative(from, to) ==
    LET f == AbsSegs(from)
        t == AbsSegs(to)
        k == CommonPrefixLen(f, t)
        ups == [i \in 1..(Len(f) - k) |-> <<DOTDOT>>]
    IN joinWith(ups \o SubSeq(t, k + 1, Len(t)), <<SLASH>>)

\* ----------------------------------------------------------------------
\* The include bundler: directive lines
\* ----------------------------------------------------------------------
\* COMMENT_RE = /^\s*[\*;]/ on a trimmed line
IsCommentLine(trimmed) == Len(trimmed) > 0 /\ trimmed[1] \in {"*", ";"}

\* /^\.(include|lib)\s+(.+?)\s*$/i on a trimmed line
IsDirectiveLine(trimmed) ==
    /\ Len(trimmed) >= 4
    /\ trimmed[1] = DOT
    /\ ToLowerCase(trimmed[2]) \in {"include", "lib"}
    /\ IsSpace(trimmed[3])

stripQuotes(s) ==
    LET t == trim(s)
    IN IF Len(t) >= 2 /\ t[1] = DQ /\ t[Len(t)] = DQ
       THEN [value |-> SubSeq(t, 2, Len(t) - 1), quote |-> <<DQ>>]
       ELSE IF Len(t) >= 2 /\ t[1] = SQ /\ t[Len(t)] = SQ
       THEN [value |-> SubSeq(t, 2, Len(t) - 1), quote |-> <<SQ>>]
       ELSE [value |-> t, quote |-> <<>>]

\* rest.split(/\s+/)[0] for a trimmed, non-empty rest
firstWord(rest) ==
    LET blanks == {i \in 1..Len(rest) : IsSpace(rest[i])}
    IN IF blanks = {} THEN rest
       ELSE SubSeq(rest, 1, (CHOOSE i \in blanks : \A j \in blanks : i <= j) - 1)

\* the file token of a directive: up to the closing quote, or the first word
fileTokenOf(rest) ==
    IF rest[1] \in {DQ, SQ}
    THEN LET j == indexOfFrom(rest, rest[1], 1)
         IN IF j > 0 THEN SubSeq(rest, 1, j + 1) ELSE <<>>
    ELSE firstWord(rest)

NoDirective == [found |-> FALSE]

parseDirectiveLine(line) ==
    LET trimmed == trim(line)
    IN IF trimmed = <<>> \/ IsCommentLine(trimmed) \/ ~IsDirectiveLine(trimmed)
       THEN NoDirective
       ELSE LET rest == trim(SubSeq(trimmed, 3, Len(trimmed)))
                fileToken == fileTokenOf(rest)
                q == stripQuotes(fileToken)
            IN IF fileToken = <<>> \/ q.value = <<>>
               THEN NoDirective
               ELSE [found |-> TRUE,
                     directive |-> ToLowerCase(trimmed[2]),
                     fileToken |-> fileToken,
                     filePath |-> q.value,
                     quote |-> q.quote]

\* ----------------------------------------------------------------------
\* The include bundler: destination paths
\* ----------------------------------------------------------------------
IllegalChars == {":", "*", "?", DQ, "<", ">", "|"}

ReplaceIllegal(seg) == [i \in 1..Len(seg) |-> IF seg[i] \in IllegalChars THEN "_" ELSE seg[i]]

KeepSegment_dotDotKept(seg) == seg # <<>> /\ seg # <<DOT>>

\* the filter of normalizeDestRelPath
KeepSegment(seg) == seg # <<>> /\ seg # <<DOT>> /\ seg # <<DOTDOT>>

RECURSIVE MapReplaceIllegal(_)
MapReplaceIllegal(segs) ==
    IF segs = <<>> THEN <<>>
    ELSE <<ReplaceIllegal(Head(segs))>> \o MapReplaceIllegal(Tail(segs))

normalizeDestRelPath(rel) ==
    joinWith(MapReplaceIllegal(SelectSeq(splitOn(rel, {SLASH, BACKSLASH}), KeepSegment)),
             <<SLASH>>)

posixify(p) == [i \in 1..Len(p) |-> IF p[i] = BACKSLASH THEN SLASH ELSE p[i]]

\* Buffer.from(p).toString("base64"), one character per element, for the
\* absolute paths of the modelled file system
Base64(p) ==
    CASE p = <<SLASH, "models", SLASH, "a", SLASH, "m">> ->
           <<"L", "2", "1", "v", "Z", "G", "V", "s", "c", "y", "9", "h", "L", "2", "0", "=">>
      [] p = <<SLASH, "models", SLASH, "b", SLASH, "m">> ->
           <<"L", "2", "1", "v", "Z", "G", "V", "s", "c", "y", "9", "i", "L", "2", "0", "=">>
      [] OTHER -> <<>>

IsAlnum(c) == c \notin {"+", "/", "="}

\* s.slice(0, n)
sliceTo(s, n) == SubSeq(s, 1, IF Len(s) < n THEN Len(s) ELSE n)

HashLength == 10

\* Buffer.from(p).toString("base64").replace(/[^a-zA-Z0-9]/g, "").slice(0, 10)
pathHash(p) == sliceTo(SelectSeq(Base64(p), IsAlnum), HashLength)

\* ----------------------------------------------------------------------
\* The include bundler: the run it is called in
\* ----------------------------------------------------------------------
runDir == <<SLASH, "runs", SLASH, "r1">>
baselineFilePath == <<SLASH, "proj", SLASH, "main.cir">>

\* const includesDirName = args.includesDirName ?? "includes"
includesDirName == Coalesce(Undefined, <<"includes">>)
includesDir == join(runDir, includesDirName)
baseDir == dirname(baselineFilePath)

\* the regular files on disk, by their segments, with their sizes in bytes
Files ==
    (<<<<"proj">>, <<"a">>>> :> 2) @@
    (<<<<"proj">>, <<"m">>>> :> 2) @@
    (<<<<"proj">>, <<"include">>>> :> 1) @@
    (<<<<"proj">>, <<"sub">>, <<"m">>>> :> 3) @@
    (<<<<"m">>>> :> 1) @@
    (<<<<"models">>, <<"a">>, <<"m">>>> :> 2) @@
    (<<<<"models">>, <<"b">>, <<"m">>>> :> 3)

\* fs.pathExists(p) and (await fs.stat(p)).size
pathExists(p) == AbsSegs(p) \in DOMAIN Files
statSize(p) == Files[AbsSegs(p)]

\* an absent optional limit, and args.maxFiles ?? 200, args.maxTotalBytes ?? 20_000_000
NotGiven == -1
DefaultMaxFiles == 200
DefaultMaxTotalBytes == 20000000
LimitOrDefault(arg, default) == IF arg = NotGiven THEN default ELSE arg

\* args.netlistText.split(/\r?\n/)
splitNetlistLines(text) ==
    LET pieces == splitOn(text, {NL})
    IN [i \in 1..Len(pieces) |->
          IF i < Len(pieces) /\ pieces[i] # <<>> /\ pieces[i][Len(pieces[i])] = CR
          THEN SubSeq(pieces[i], 1, Len(pieces[i]) - 1)
          ELSE pieces[i]]

lines == splitNetlistLines(netlistText)

resolvedAttemptPath(specifier) ==
    IF isAbsolute(specifier) THEN specifier ELSE resolve(baseDir, specifier)

destRel(specifier) ==
    IF isAbsolute(specifier)
    THEN LET base == basename(resolvedAttemptPath(specifier))
             hash == pathHash(resolvedAttemptPath(specifier))
         IN normalizeDestRelPath(joinWith(<<<<"abs">>, base \o <<"_">> \o hash>>, <<SLASH>>))
    ELSE normalizeDestRelPath(relative(baseDir, resolvedAttemptPath(specifier)))

destPath(specifier) == join(includesDir, destRel(specifier))

rewritten(specifier) == posixify(relative(runDir, destPath(specifier)))

\* line.replace(token, repl): the first occurrence of token in line
replaceFirst(line, token, repl) ==
    LET hits == {i \in 1..(Len(line) - Len(token) + 1) :
                    SubSeq(line, i, i + Len(token) - 1) = token}
    IN IF hits = {} THEN line
       ELSE LET i == CHOOSE h \in hits : \A j \in hits : h <= j
            IN SubSeq(line, 1, i - 1) \o repl \o SubSeq(line, i + Len(token), Len(line))

rewriteLine(line, map) ==
    LET info == parseDirectiveLine(line)
    IN IF ~info.found THEN line
       ELSE IF info.filePath \notin DOMAIN map THEN line
       ELSE replaceFirst(line, info.fileToken,
                         info.quote \o map[info.filePath] \o info.quote)

\* lines.map(...).join("\n")
bundle(map) == joinWith([i \in 1..Len(lines) |-> rewriteLine(lines[i], map)], <<NL>>)

\* ----------------------------------------------------------------------
\* The include bundler: inputs and the pass
\* ----------------------------------------------------------------------
MaxLines == 3

IncludeLines ==
    {<<DOT, "include", SP, "a">>,
     <<DOT, "include", SP, DQ, "a", DQ>>,
     <<DOT, "lib", SP, "sub", SLASH, "m", SP, "TT">>,
     <<DOT, "include", SP, "m">>,
     <<DOT, "include", SP, DOTDOT, SLASH, DOTDOT, SLASH, "etc", SLASH, DOTDOT, SLASH, "m">>,
     <<DOT, "include", SP, "nope">>,
     <<DOT, "INCLUDE", SP, SLASH, "models", SLASH, "a", SLASH, "m">>,
     <<DOT, "include", SP, SLASH, "models", SLASH, "b", SLASH, "m">>,
     <<DOT, "include", SP, "include">>,
     <<"R1", SP, "in", SP, "out", SP, "1k", CR>>,
     <<"*", SP, DOT, "include", SP, "a">>}

\* the limits a caller passes: none, a file count, or a byte count
LimitArgs == {<<NotGiven, NotGiven>>, <<1, NotGiven>>, <<NotGiven, 4>>}

\* the netlist text grows by one line
AppendLine(line) ==
    /\ phase = "input"
    /\ appended < MaxLines
    /\ netlistText' = IF appended = 0 THEN line ELSE netlistText \o <<NL>> \o line
    /\ appended' = appended + 1
    /\ UNCHANGED <<phase, maxFiles, maxTotalBytes, cursor, copied, missing,
                   rewriteMap, totalBytes, bundledNetlist, ensembleVars, netlistVars, runVars, commandVars>>

\* bundleSpiceIncludes(args) up to the for loop
BundleSpiceIncludes(limits) ==
    /\ phase = "input"
    /\ phase' = "loop"
    /\ maxFiles' = LimitOrDefault(limits[1], DefaultMaxFiles)
    /\ maxTotalBytes' = LimitOrDefault(limits[2], DefaultMaxTotalBytes)
    /\ UNCHANGED <<netlistText, appended, cursor, copied, missing, rewriteMap,
                   totalBytes, bundledNetlist, ensembleVars, netlistVars, runVars, commandVars>>

\* the end of one iteration: on to the next line, or out of the loop, through
\* the rewriting and back to the caller
Advance(map) ==
    /\ cursor' = cursor + 1
    /\ IF cursor = Len(lines)
       THEN phase' = "returned" /\ bundledNetlist' = bundle(map)
       ELSE UNCHANGED <<phase, bundledNetlist>>

\* break: out of the loop with the cursor left on the refused line
Break ==
    /\ phase' = "returned"
    /\ bundledNetlist' = bundle(rewriteMap)
    /\ UNCHANGED cursor

InLoop == phase = "loop" /\ cursor <= Len(lines)

AlreadyResolved_never(specifier, map) == FALSE

\* rewriteMap.has(originalSpecifier)
AlreadyResolved(specifier, map) == specifier \in DOMAIN map

\* if (!info) continue
SkipLine ==
    /\ InLoop
    /\ ~parseDirectiveLine(lines[cursor]).found
    /\ Advance(rewriteMap)
    /\ UNCHANGED <<netlistText, appended, maxFiles, maxTotalBytes, copied, missing,
                   rewriteMap, totalBytes, ensembleVars, netlistVars, runVars, commandVars>>

\* if (rewriteMap.has(originalSpecifier)) continue
SkipResolved ==
    /\ InLoop
    /\ LET info == parseDirectiveLine(lines[cursor])
       IN /\ info.found
          /\ AlreadyResolved(info.filePath, rewriteMap)
    /\ Advance(rewriteMap)
    /\ UNCHANGED <<netlistText, appended, maxFiles, maxTotalBytes, copied, missing,
                   rewriteMap, totalBytes, ensembleVars, netlistVars, runVars, commandVars>>

ReportMissing_stops ==
    /\ InLoop
    /\ LET info == parseDirectiveLine(lines[cursor])
       IN /\ info.found
          /\ ~pathExists(resolvedAttemptPath(info.filePath))
          /\ missing' = Append(missing,
                               [directive |-> info.directive,
                                originalSpecifier |-> info.filePath,
                                resolvedAttemptPath |-> resolvedAttemptPath(info.filePath)])
    /\ phase' = "returned"
    /\ bundledNetlist' = bundle(rewriteMap)
    /\ UNCHANGED <<netlistText, appended, maxFiles, maxTotalBytes, cursor, copied,
                   rewriteMap, totalBytes, ensembleVars, netlistVars, runVars, commandVars>>

\* if (!exists) { missing.push(...); continue }
ReportMissing ==
    /\ InLoop
    /\ LET info == parseDirectiveLine(lines[cursor])
       IN /\ info.found
          /\ ~AlreadyResolved(info.filePath, rewriteMap)
          /\ ~pathExists(resolvedAttemptPath(info.filePath))
          /\ missing' = Append(missing,
                               [directive |-> info.directive,
                                originalSpecifier |-> info.filePath,
                                resolvedAttemptPath |-> resolvedAttemptPath(info.filePath)])
    /\ Advance(rewriteMap)
    /\ UNCHANGED <<netlistText, appended, maxFiles, maxTotalBytes, copied,
                   rewriteMap, totalBytes, ensembleVars, netlistVars, runVars, commandVars>>

\* if (copied.length >= maxFiles) break
StopAtMaxFiles ==
    /\ InLoop
    /\ LET info == parseDirectiveLine(lines[cursor])
       IN /\ info.found
          /\ ~AlreadyResolved(info.filePath, rewriteMap)
          /\ pathExists(resolvedAttemptPath(info.filePath))
          /\ Len(copied) >= maxFiles
    /\ Break
    /\ UNCHANGED <<netlistText, appended, maxFiles, maxTotalBytes, copied, missing,
                   rewriteMap, totalBytes, ensembleVars, netlistVars, runVars, commandVars>>

StopAtMaxTotalBytes_continues ==
    /\ InLoop
    /\ LET info == parseDirectiveLine(lines[cursor])
       IN /\ info.found
          /\ ~AlreadyResolved(info.filePath, rewriteMap)
          /\ pathExists(resolvedAttemptPath(info.filePath))
          /\ Len(copied) < maxFiles
          /\ totalBytes + statSize(resolvedAttemptPath(info.filePath)) > maxTotalBytes
    /\ Advance(rewriteMap)
    /\ UNCHANGED <<netlistText, appended, maxFiles, maxTotalBytes, copied, missing,
                   rewriteMap, totalBytes, ensembleVars, netlistVars, runVars, commandVars>>

\* if (totalBytes + stat.size > maxTotalBytes) break
StopAtMaxTotalBytes ==
    /\ InLoop
    /\ LET info == parseDirectiveLine(lines[cursor])
       IN /\ info.found
          /\ ~AlreadyResolved(info.filePath, rewriteMap)
          /\ pathExists(resolvedAttemptPath(info.filePath))
          /\ Len(copied) < maxFiles
          /\ totalBytes + statSize(resolvedAttemptPath(info.filePath)) > maxTotalBytes
    /\ Break
    /\ UNCHANGED <<netlistText, appended, maxFiles, maxTotalBytes, copied, missing,
                   rewriteMap, totalBytes, ensembleVars, netlistVars, runVars, commandVars>>

\* fs.copy(resolvedAttemptPath, destPath) and the three records of it
CopyInclude ==
    /\ InLoop
    /\ LET info == parseDirectiveLine(lines[cursor])
           source == resolvedAttemptPath(info.filePath)
       IN /\ info.found
          /\ ~AlreadyResolved(info.filePath, rewriteMap)
          /\ pathExists(source)
          /\ Len(copied) < maxFiles
          /\ totalBytes + statSize(source) <= maxTotalBytes
          /\ totalBytes' = totalBytes + statSize(source)
          /\ rewriteMap' = (info.filePath :> rewritten(info.filePath)) @@ rewriteMap
          /\ copied' = Append(copied,
                              [directive |-> info.directive,
                               originalSpecifier |-> info.filePath,
                               resolvedSourcePath |-> source,
                               destPath |-> destPath(info.filePath)])
          /\ Advance(rewriteMap')
    /\ UNCHANGED <<netlistText, appended, maxFiles, maxTotalBytes, missing,
                   ensembleVars, netlistVars, runVars, commandVars>>

NextBundle ==
    \/ \E line \in IncludeLines : AppendLine(line)
    \/ \E limits \in LimitArgs : BundleSpiceIncludes(limits)
    \/ SkipLine
    \/ SkipResolved
    \/ ReportMissing
    \/ StopAtMaxFiles
    \/ StopAtMaxTotalBytes
    \/ CopyInclude

SpecBundle == Init /\ [][NextBundle]_vars

\* ----------------------------------------------------------------------
\* Properties of the include bundler: vocabulary
\* ----------------------------------------------------------------------
\* the file p names lies strictly below the directory dir names
IsDescendant(p, dir) ==
    LET ps == AbsSegs(p)
        ds == AbsSegs(dir)
    IN Len(ps) > Len(ds) /\ SubSeq(ps, 1, Len(ds)) = ds

\* how many segments of a specifier are ".."
ParentSteps(specifier) ==
    Cardinality({i \in 1..Len(specifier) : specifier[i] = DOTDOT})

outLines == splitOn(bundledNetlist, {NL})

\* the specifier a directive line names, <<>> for any other line
SpecifierOf(line) ==
    LET info == parseDirectiveLine(line)
    IN IF info.found THEN info.filePath ELSE <<>>

\* the input lines that are directives naming the given specifier
LinesNaming(specifier) ==
    {i \in 1..Len(lines) : SpecifierOf(lines[i]) = specifier}

\* the entries of a report about the given specifier
EntriesFor(report, specifier) ==
    {i \in 1..Len(report) : report[i].originalSpecifier = specifier}

\* the path, relative to the run directory, a copied file is reachable at
BundledPath(entry) == posixify(relative(runDir, entry.destPath))

\* text occurs in line as a run of consecutive lexemes
Contains(line, text) ==
    \E i \in 1..(Len(line) - Len(text) + 1) : SubSeq(line, i, i + Len(text) - 1) = text

C13_ResolvedAtMostOnce ==
    \A i \in 1..Len(lines) :
        LET specifier == SpecifierOf(lines[i])
        IN Cardinality(EntriesFor(copied, specifier))
             + Cardinality(EntriesFor(missing, specifier)) <= 1

\* ----------------------------------------------------------------------
\* C14: a specifier whose file does not exist is recorded in missing with
\* the directive of a line naming it and the path that was tried, nothing
\* is copied for it, and the pass goes on: it ends early only at a file
\* that exists, and when it ends at the last line every directive has been
\* resolved.  In the text the pass returns, the lines naming a missing
\* specifier are the input lines unchanged.
\* ----------------------------------------------------------------------
DirectiveOf(line) == parseDirectiveLine(line).directive

C14_MissingReported ==
    /\ \A k \in 1..Len(missing) :
          LET specifier == missing[k].originalSpecifier
          IN /\ \E i \in LinesNaming(specifier) : DirectiveOf(lines[i]) = missing[k].directive
             /\ missing[k].resolvedAttemptPath =
                    (IF isAbsolute(specifier) THEN specifier ELSE resolve(baseDir, specifier))
             /\ ~pathExists(missing[k].resolvedAttemptPath)
             /\ EntriesFor(copied, specifier) = {}
             /\ phase = "returned" =>
                    \A i \in LinesNaming(specifier) : outLines[i] = lines[i]
    /\ phase = "returned" /\ cursor <= Len(lines) =>
          pathExists(resolvedAttemptPath(SpecifierOf(lines[cursor])))
    /\ phase = "returned" /\ cursor > Len(lines) =>
          \A i \in 1..Len(lines) :
              parseDirectiveLine(lines[i]).found =>
                  EntriesFor(copied, SpecifierOf(lines[i]))
                      \cup EntriesFor(missing, SpecifierOf(lines[i])) # {}

C14_Witness ==
    /\ phase = "returned"
    /\ \E k \in 1..Len(missing), c \in 1..Len(copied) :
          \E i \in LinesNaming(missing[k].originalSpecifier),
             j \in LinesNaming(copied[c].originalSpecifier) :
              /\ i < j
              /\ outLines[i] = lines[i]
              /\ outLines[j] # lines[j]

\* ----------------------------------------------------------------------
\* Vocabulary for the limits
\* ----------------------------------------------------------------------
RECURSIVE SumSizes(_)
SumSizes(report) ==
    IF report = <<>> THEN 0
    ELSE statSize(Head(report).resolvedSourcePath) + SumSizes(Tail(report))

\* line i is a directive naming a file that exists and was not copied
Refused(i) ==
    /\ parseDirectiveLine(lines[i]).found
    /\ pathExists(resolvedAttemptPath(SpecifierOf(lines[i])))
    /\ EntriesFor(copied, SpecifierOf(lines[i])) = {}

\* every entry of the report stems from a directive line before line i
ReportedBefore(report, i) ==
    \A k \in 1..Len(report) :
        \E j \in LinesNaming(report[k].originalSpecifier) : j < i

WithinLimits ==
    phase # "input" =>
        /\ Len(copied) <= maxFiles
        /\ totalBytes = SumSizes(copied)
        /\ SumSizes(copied) <= maxTotalBytes

Rewriting ==
    phase = "returned" =>
        /\ \A k \in 1..Len(copied) :
              \A i \in LinesNaming(copied[k].originalSpecifier) :
                  Contains(outLines[i], BundledPath(copied[k]))
        /\ \A i \in 1..Len(lines) :
              /\ parseDirectiveLine(lines[i]).found
              /\ EntriesFor(copied, SpecifierOf(lines[i])) = {}
              => outLines[i] = lines[i]

UnderAbs(entry) ==
    LET segs == AbsSegs(entry.destPath)
        name == basename(entry.resolvedSourcePath) \o <<"_">>
    IN /\ SubSeq(segs, 1, Len(segs) - 1) = Append(AbsSegs(includesDir), <<"abs">>)
       /\ Len(segs[Len(segs)]) >= Len(name)
       /\ SubSeq(segs[Len(segs)], 1, Len(name)) = name

C16_AbsoluteDistinct ==
    \A i, j \in 1..Len(copied) :
        /\ isAbsolute(copied[i].originalSpecifier)
        /\ isAbsolute(copied[j].originalSpecifier)
        /\ AbsSegs(copied[i].resolvedSourcePath) # AbsSegs(copied[j].resolvedSourcePath)
        => /\ UnderAbs(copied[i])
           /\ UnderAbs(copied[j])
           /\ copied[i].destPath # copied[j].destPath

\* ----------------------------------------------------------------------
\* runBatch: providers and their answers
\* ----------------------------------------------------------------------
ProviderNames == {"openai", "xai", "google", "anthropic"}

RECURSIVE AddAll(_, _)
AddAll(enabled, set) ==
    IF enabled = <<>> THEN set
    ELSE LET p == Head(enabled)
         IN AddAll(Tail(enabled),
                   IF p \in ProviderNames /\ \A i \in 1..Len(set) : set[i] # p
                   THEN Append(set, p) ELSE set)

\* the known names of the list, each once, in the order they first appear
normalizeEnabledProviders(enabled) == AddAll(enabled, <<>>)

\* opts.openaiModel ?? "gpt-5.2" and so on, no model being configured
modelForProvider(provider) ==
    CASE provider = "openai" -> Coalesce(Undefined, <<"gpt-5.2">>)
      [] provider = "xai" -> Coalesce(Undefined, <<"grok-4">>)
      [] provider = "google" -> Coalesce(Undefined, <<"gemini-2.5-flash">>)
      [] provider = "anthropic" -> Coalesce(Undefined, <<"claude-sonnet-4-5-20250929">>)

\* what the provider's SDK call does: it resolves, with or without a text,
\* or it throws
Resolves(text) == [kind |-> "resolves", text |-> text]
Throws(message) == [kind |-> "throws", message |-> message]

\* a promise that is fulfilled with a value, or rejected
Fulfilled(value) == [status |-> "fulfilled", value |-> value]
Rejected(reason) == [status |-> "rejected", reason |-> reason]
Pending == [status |-> "pending"]

ModelAnswer(provider, model, text, error) ==
    [provider |-> provider, model |-> model, text |-> text, error |-> error]

askOpenAI(model, outcome) ==
    IF outcome.kind = "resolves"
    THEN Fulfilled(ModelAnswer("openai", model, Coalesce(outcome.text, <<>>), Undefined))
    ELSE Fulfilled(ModelAnswer("openai", model, <<>>, outcome.message))

askGrok_noCatch(model, outcome) ==
    IF outcome.kind = "resolves"
    THEN Fulfilled(ModelAnswer("xai", model, Coalesce(outcome.text, <<>>), Undefined))
    ELSE Rejected(outcome.message)

askGrok(model, outcome) ==
    IF outcome.kind = "resolves"
    THEN Fulfilled(ModelAnswer("xai", model, Coalesce(outcome.text, <<>>), Undefined))
    ELSE Fulfilled(ModelAnswer("xai", model, <<>>, outcome.message))

askGemini(model, outcome) ==
    IF outcome.kind = "resolves"
    THEN Fulfilled(ModelAnswer("google", model, Coalesce(outcome.text, <<>>), Undefined))
    ELSE Fulfilled(ModelAnswer("google", model, <<>>, outcome.message))

\* the text blocks of the message joined and trimmed
askClaude(model, outcome) ==
    IF outcome.kind = "resolves"
    THEN Fulfilled(ModelAnswer("anthropic", model, trim(Coalesce(outcome.text, <<>>)), Undefined))
    ELSE Fulfilled(ModelAnswer("anthropic", model, <<>>, outcome.message))

askProvider(provider, model, outcome) ==
    CASE provider = "openai" -> askOpenAI(model, outcome)
      [] provider = "xai" -> askGrok(model, outcome)
      [] provider = "google" -> askGemini(model, outcome)
      [] provider = "anthropic" -> askClaude(model, outcome)

\* a string in a condition: undefined and "" are falsy
Truthy(text) == text # Undefined /\ text # <<>>

\* ----------------------------------------------------------------------
\* runBatch: the ensembling prompt (buildEnsemblePrompt)
\* ----------------------------------------------------------------------
SEPARATOR == "---"

blockBody_textOnly(a) == trim(Coalesce(a.text, <<>>))

\* const body = a.error ? "(ERROR) ..." : (a.text || "").trim()
blockBody(a) ==
    IF Truthy(a.error) THEN <<"(ERROR) ">> \o a.error
    ELSE trim(IF Truthy(a.text) THEN a.text ELSE <<>>)

block(a) ==
    <<"## Provider: ", a.provider, " | Model: ">> \o a.model \o <<NL, NL>> \o blockBody(a) \o <<NL>>

RECURSIVE blocks(_)
blocks(as) ==
    IF as = <<>> THEN <<>>
    ELSE IF Len(as) = 1 THEN block(as[1])
    ELSE block(as[1]) \o <<NL, SEPARATOR, NL>> \o blocks(Tail(as))

buildEnsemblePrompt(as) ==
    <<"QUESTION:", NL, "MODEL OUTPUTS:", NL>> \o blocks(as) \o <<NL, "HARD REQUIREMENTS:", NL>>

\* ----------------------------------------------------------------------
\* runBatch: the final files
\* ----------------------------------------------------------------------
missingSpice(out) == trim(out.spiceNetlist) = <<>>
missingJson(out) == trim(out.circuitJson) = <<>>

finalMdText(out) ==
    (IF trim(out.finalMarkdown) # <<>> THEN out.finalMarkdown
     ELSE <<"# Ensemble output", NL, NL,
            "(Ensemble did not provide ", TAG_MD_OPEN, "; see ", "ensemble_raw.txt", ".)", NL>>)
    \o (IF missingSpice(out)
        THEN <<NL, "> WARNING: Missing SPICE netlist block; see ", "ensemble_raw.txt", ".", NL>>
        ELSE <<>>)

PlaceholderNetlist ==
    <<"*", SP, "ERROR: Ensemble output missing ", TAG_SPICE_OPEN, " block.", NL,
      "*", SP, "See ", "ensemble_raw.txt", " for the full model output.", NL,
      "*", SP, "baseline.cir", " contains the baseline topology netlist.", NL,
      ".end", NL>>

finalCirText_always(out) == out.spiceNetlist

finalCirText(out) == IF missingSpice(out) THEN PlaceholderNetlist ELSE out.spiceNetlist

\* the placeholder of the chat turn (index.ts)
ChatPlaceholderNetlist ==
    <<"*", SP, "ERROR: Ensemble output missing ", TAG_SPICE_OPEN, " block.", NL,
      "*", SP, "See ", "ensemble_raw.txt", " for the full model output.", NL,
      ".end", NL>>

chatFinalCirText(out) == IF missingSpice(out) THEN ChatPlaceholderNetlist ELSE out.spiceNetlist

ErrorObject ==
    [error |-> <<"Ensemble output missing ", TAG_JSON_OPEN, " block.">>,
     assumptions |-> <<>>,
     probes |-> <<>>,
     bom |-> <<>>,
     notes |-> <<<<"See ", "ensemble_raw.txt", " for full model output.">>>>]

\* JSON.stringify(list, null, 2) of a list of strings (the blanks of the
\* indentation are left out)
RECURSIVE stringifyItems(_)
stringifyItems(list) ==
    IF list = <<>> THEN <<>>
    ELSE <<NL, DQ>> \o Head(list) \o <<DQ>>
         \o (IF Len(list) > 1 THEN <<",">> ELSE <<NL>>) \o stringifyItems(Tail(list))

stringifyList(list) == <<"[">> \o stringifyItems(list) \o <<"]">>

\* JSON.stringify(obj, null, 2) of the error object
stringify(obj) ==
    <<"{", NL, DQ, "error", DQ, ":", SP, DQ>> \o obj.error \o <<DQ, ",", NL,
      DQ, "assumptions", DQ, ":", SP>> \o stringifyList(obj.assumptions) \o <<",", NL,
      DQ, "probes", DQ, ":", SP>> \o stringifyList(obj.probes) \o <<",", NL,
      DQ, "bom", DQ, ":", SP>> \o stringifyList(obj.bom) \o <<",", NL,
      DQ, "notes", DQ, ":", SP>> \o stringifyList(obj.notes) \o <<NL, "}">>

finalJsonText(out) ==
    IF missingJson(out) THEN stringify(ErrorObject) \o <<NL>> ELSE out.circuitJson

File(name, content) == [name |-> name, content |-> content]

\* the per-provider Markdown file of an answer
answerFile(a) ==
    File(<<"answers/", a.provider, "_">> \o a.model \o <<".md">>,
         <<"# ", a.provider, " | ">> \o a.model \o <<NL, NL>>
           \o (IF Truthy(a.error) THEN <<"# ERROR", NL, NL>> \o a.error ELSE a.text)
           \o <<NL>>)

RECURSIVE answerFiles(_)
answerFiles(as) ==
    IF as = <<>> THEN <<>> ELSE <<answerFile(Head(as))>> \o answerFiles(Tail(as))

\* ----------------------------------------------------------------------
\* runBatch: inputs and steps
\* ----------------------------------------------------------------------
MaxProviders == 3

\* the names a caller may list, one of them not a provider
ListedNames == ProviderNames \cup {"other"}

EnabledLists == UNION {[1..n -> ListedNames] : n \in 0..MaxProviders}

FanoutOutcomes == {Resolves(<<"Hello", SP>>), Resolves(Undefined), Throws(<<"401">>)}

EnsembleOutcomes ==
    {Throws(<<"401">>),
     Resolves(Undefined),
     Resolves(<<SP>>),
     Resolves(<<"Hello">>),
     Resolves(<<TAG_SPICE_OPEN, "R1", TAG_SPICE_CLOSE>>),
     Resolves(<<TAG_JSON_OPEN, "{", "}", TAG_JSON_CLOSE>>),
     Resolves(<<TAG_MD_OPEN, "Hello", TAG_MD_CLOSE, TAG_SPICE_OPEN, "R1", TAG_SPICE_CLOSE,
                TAG_JSON_OPEN, "{", "}", TAG_JSON_CLOSE>>)}

\* Prefer Claude as the ensembler when available, else the first enabled provider
ensembleProvider ==
    IF \E i \in 1..Len(enabledProviders) : enabledProviders[i] = "anthropic"
    THEN "anthropic" ELSE enabledProviders[1]

\* runBatch(opts) up to the fanout: one request per enabled provider
RunBatch(enabled) ==
    /\ pc = "idle"
    /\ enabledProviders' = normalizeEnabledProviders(enabled)
    /\ IF enabledProviders' = <<>>
       THEN pc' = "failed" /\ UNCHANGED jobs
       ELSE pc' = "fanout" /\ jobs' = [i \in 1..Len(enabledProviders') |-> Pending]
    /\ UNCHANGED <<answers, requests, ensemble, files, ensembleVars, netlistVars, bundleVars, commandVars>>

\* the request to the i-th enabled provider settles
Settle(i, outcome) ==
    /\ pc = "fanout"
    /\ i \in 1..Len(jobs)
    /\ jobs[i] = Pending
    /\ jobs' = [jobs EXCEPT ![i] =
                  askProvider(enabledProviders[i], modelForProvider(enabledProviders[i]), outcome)
                    @@ [outcome |-> outcome]]
    /\ UNCHANGED <<enabledProviders, answers, pc, requests, ensemble, files,
                   ensembleVars, netlistVars, bundleVars, commandVars>>

\* const answers = await Promise.all(fanoutJobs)
Join ==
    /\ pc = "fanout"
    /\ \/ \A i \in 1..Len(jobs) : jobs[i].status = "fulfilled"
       \/ \E i \in 1..Len(jobs) : jobs[i].status = "rejected"
    /\ IF \E i \in 1..Len(jobs) : jobs[i].status = "rejected"
       THEN pc' = "rejected" /\ UNCHANGED answers
       ELSE pc' = "joined" /\ answers' = [i \in 1..Len(jobs) |-> jobs[i].value]
    /\ UNCHANGED <<enabledProviders, jobs, requests, ensemble, files,
                   ensembleVars, netlistVars, bundleVars, commandVars>>

\* answers.json and answers/<provider>_<model>.md
WriteAnswers ==
    /\ pc = "joined"
    /\ files' = files \o <<File(<<"answers.json">>, answers)>> \o answerFiles(answers)
    /\ pc' = "answered"
    /\ UNCHANGED <<enabledProviders, jobs, answers, requests, ensemble,
                   ensembleVars, netlistVars, bundleVars, commandVars>>

\* askProvider({ provider: ensembleProvider, prompt: ensemblePrompt, ... }) is called
AskEnsemble ==
    /\ pc = "answered"
    /\ requests' = Append(requests,
                          [provider |-> ensembleProvider,
                           model |-> modelForProvider(ensembleProvider),
                           prompt |-> buildEnsemblePrompt(answers)])
    /\ pc' = "ensembling"
    /\ UNCHANGED <<enabledProviders, jobs, answers, ensemble, files,
                   ensembleVars, netlistVars, bundleVars, commandVars>>

\* the ensembling request settles
EnsembleSettles(outcome) ==
    /\ pc = "ensembling"
    /\ LET promise == askProvider(requests[Len(requests)].provider,
                                  requests[Len(requests)].model, outcome)
       IN IF promise.status = "rejected"
          THEN pc' = "rejected" /\ UNCHANGED ensemble
          ELSE pc' = "ensembled" /\ ensemble' = promise.value
    /\ UNCHANGED <<enabledProviders, jobs, answers, requests, files,
                   ensembleVars, netlistVars, bundleVars, commandVars>>

EnsembleFailed_never(answer) == FALSE

\* if (ensemble.error || !ensemble.text)
EnsembleFailed(answer) == Truthy(answer.error) \/ ~Truthy(answer.text)

\* ensemble_raw.txt, then the throw of a failed ensemble
WriteEnsembleRaw ==
    /\ pc = "ensembled"
    /\ files' = Append(files,
                       File(<<"ensemble_raw.txt">>,
                            IF Truthy(ensemble.text) THEN ensemble.text
                            ELSE IF Truthy(ensemble.error) THEN ensemble.error
                            ELSE <<>>))
    /\ pc' = IF EnsembleFailed(ensemble) THEN "failed" ELSE "recovering"
    /\ UNCHANGED <<enabledProviders, jobs, answers, requests, ensemble,
                   ensembleVars, netlistVars, bundleVars, commandVars>>

\* parseEnsembleOutputs, final.md, final.cir, final.json
WriteFinals ==
    /\ pc = "recovering"
    /\ LET out == parseEnsembleOutputs(ensemble.text)
       IN files' = files \o <<File(<<"final.md">>, finalMdText(out)),
                              File(<<"final.cir">>, finalCirText(out)),
                              File(<<"final.json">>, finalJsonText(out))>>
    /\ pc' = "finals"
    /\ UNCHANGED <<enabledProviders, jobs, answers, requests, ensemble,
                   ensembleVars, netlistVars, bundleVars, commandVars>>

\* schematic.dot, report.docx, report.pdf
WriteReport ==
    /\ pc = "finals"
    /\ files' = files \o <<File(<<"schematic.dot">>, <<>>),
                           File(<<"report.docx">>, <<>>),
                           File(<<"report.pdf">>, <<>>)>>
    /\ pc' = "done"
    /\ UNCHANGED <<enabledProviders, jobs, answers, requests, ensemble,
                   ensembleVars, netlistVars, bundleVars, commandVars>>

NextRun ==
    \/ \E enabled \in EnabledLists : RunBatch(enabled)
    \/ \E i \in 1..MaxProviders, outcome \in FanoutOutcomes : Settle(i, outcome)
    \/ Join
    \/ WriteAnswers
    \/ AskEnsemble
    \/ \E outcome \in EnsembleOutcomes : EnsembleSettles(outcome)
    \/ WriteEnsembleRaw
    \/ WriteFinals
    \/ WriteReport

SpecRun == Init /\ [][NextRun]_vars

\* ----------------------------------------------------------------------
\* Properties of runBatch: vocabulary
\* ----------------------------------------------------------------------
\* Promise.all has resolved
Joined == pc \notin {"idle", "fanout", "rejected"} /\ enabledProviders # <<>>

\* the text a resolved call hands over, as the provider's wrapper keeps it
TextKept(provider, outcome) ==
    LET text == IF outcome.text = Undefined THEN <<>> ELSE outcome.text
    IN IF provider = "anthropic" THEN trim(text) ELSE text

\* the answer stands for the outcome of the provider's own call
AnswersFor(answer, provider, outcome) ==
    /\ answer.provider = provider
    /\ outcome.kind = "throws" =>
          answer.error = outcome.message /\ answer.error # Undefined /\ answer.text = <<>>
    /\ outcome.kind = "resolves" =>
          answer.error = Undefined /\ answer.text = TextKept(provider, outcome)

FileNames == {files[i].name : i \in 1..Len(files)}

FileContent(name) == files[CHOOSE i \in 1..Len(files) : files[i].name = name].content

\* ----------------------------------------------------------------------
\* C17: fanout failure isolation.  The join is never rejected.  Every
\* settled request holds the answer to its own call: the provider's own
\* name and, for a call that threw, the error with an empty text.  When the
\* join has resolved there is one answer per enabled provider, in the order
\* of the enabled providers, no provider being there twice.
\* ----------------------------------------------------------------------
C17_FanoutIsolation ==
    /\ pc # "rejected"
    /\ \A i \in 1..Len(jobs) :
          jobs[i] # Pending =>
              /\ jobs[i].status = "fulfilled"
              /\ AnswersFor(jobs[i].value, enabledProviders[i], jobs[i].outcome)
    /\ Joined =>
          /\ Len(answers) = Len(enabledProviders)
          /\ \A i \in 1..Len(answers) : answers[i] = jobs[i].value
          /\ \A i, j \in 1..Len(answers) :
                answers[i].provider = answers[j].provider => i = j

C17_Witness ==
    /\ Joined
    /\ Len(answers) >= 3
    /\ \E i, j \in 1..Len(answers) :
          /\ i < j
          /\ jobs[i].outcome.kind = "throws"
          /\ answers[i].error = <<"401">>
          /\ jobs[j].outcome.kind = "resolves"
          /\ answers[j].text # <<>>

\* ----------------------------------------------------------------------
\* C18: the ensembling request is issued only after every fanout request
\* has settled, and its prompt has one section per fanout answer, in
\* order: the provider and model header, then the error text for a call
\* that failed and the trimmed answer text otherwise.
\* ----------------------------------------------------------------------
\* the MODEL OUTPUTS part of a prompt, cut at the separators
Sections(prompt) ==
    LET from == indexOf(prompt, "MODEL OUTPUTS:")
        to == indexOf(prompt, "HARD REQUIREMENTS:")
    IN splitOn(substring(prompt, from + 1, to), {SEPARATOR})

ExpectedSection(provider, outcome) ==
    <<"## Provider: ", provider, " | Model: ">> \o modelForProvider(provider) \o <<NL, NL>>
      \o (IF outcome.kind = "throws" THEN <<"(ERROR) ">> \o outcome.message
          ELSE trim(TextKept(provider, outcome)))

C18_EnsembleAfterFanout ==
    requests # <<>> =>
        /\ pc \notin {"idle", "fanout"}
        /\ \A i \in 1..Len(jobs) : jobs[i].status = "fulfilled"
        /\ LET sections == Sections(requests[1].prompt)
           IN /\ Len(sections) = Len(enabledProviders)
              /\ \A i \in 1..Len(sections) :
                    trim(sections[i]) =
                        trim(ExpectedSection(enabledProviders[i], jobs[i].outcome))

C18_Witness ==
    /\ pc = "ensembling"
    /\ Len(Sections(requests[1].prompt)) >= 2
    /\ \E i \in 1..Len(answers) :
          /\ answers[i].error = <<"401">>
          /\ Contains(Sections(requests[1].prompt)[i], <<"(ERROR) ", "401">>)

\* ----------------------------------------------------------------------
\* C19: the ensembling request is issued at most once in a run, exactly
\* once when the run has got past the fanout, and to one of the enabled
\* providers.  When its answer carries an error or no text, the run fails
\* with answers.json and ensemble_raw.txt written and without final.md,
\* final.cir, final.json, the schematic or the report.
\* ----------------------------------------------------------------------
FinalFileNames ==
    {<<"final.md">>, <<"final.cir">>, <<"final.json">>,
     <<"schematic.dot">>, <<"report.docx">>, <<"report.pdf">>}

EnsembleAnswered == pc \in {"ensembled", "failed", "recovering", "finals", "done"} /\ requests # <<>>

ErrorOrEmpty(answer) == answer.error # Undefined \/ answer.text = <<>>

C19_EnsembleOnce ==
    /\ Len(requests) <= 1
    /\ pc \in {"ensembling", "ensembled", "recovering", "finals", "done"} =>
          /\ Len(requests) = 1
          /\ \E i \in 1..Len(enabledProviders) : enabledProviders[i] = requests[1].provider
    /\ EnsembleAnswered /\ ErrorOrEmpty(ensemble) =>
          /\ pc \in {"ensembled", "failed"}
          /\ FileNames \cap FinalFileNames = {}
          /\ pc = "failed" =>
                {<<"answers.json">>, <<"ensemble_raw.txt">>} \subseteq FileNames
    /\ EnsembleAnswered /\ ~ErrorOrEmpty(ensemble) => pc # "failed"

C19_Witness ==
    /\ pc = "failed"
    /\ Len(requests) = 1
    /\ ensemble.error = <<"401">>
    /\ Len(enabledProviders) >= 2
    /\ <<"ensemble_raw.txt">> \in FileNames
    /\ FileContent(<<"ensemble_raw.txt">>) = <<"401">>

\* ----------------------------------------------------------------------
\* C20: the placeholder convention.  When the final files are written,
\* final.cir is the recovered netlist unchanged unless that is blank, and
\* then it is comment lines followed by .end; final.json is the recovered
\* JSON text unchanged unless that is blank, and then it is the error
\* object with empty assumptions, probes and bom and a note naming
\* ensemble_raw.txt.  The chat turn follows the same convention.
\* ----------------------------------------------------------------------
\* comment lines, then .end, then the end of the text
IsPlaceholderNetlist(text) ==
    LET ls == splitOn(text, {NL})
    IN /\ Len(ls) >= 3
       /\ ls[Len(ls)] = <<>>
       /\ ls[Len(ls) - 1] = <<".end">>
       /\ \A i \in 1..(Len(ls) - 2) : ls[i] # <<>> /\ ls[i][1] = "*"

IsErrorJson(text) ==
    /\ text = stringify(ErrorObject) \o <<NL>>
    /\ ErrorObject.assumptions = <<>>
    /\ ErrorObject.probes = <<>>
    /\ ErrorObject.bom = <<>>
    /\ \E i \in 1..Len(ErrorObject.notes) : Contains(ErrorObject.notes[i], <<"ensemble_raw.txt">>)
    /\ Contains(text, <<DQ, "assumptions", DQ, ":", SP, "[", "]">>)
    /\ Contains(text, <<DQ, "probes", DQ, ":", SP, "[", "]">>)
    /\ Contains(text, <<DQ, "bom", DQ, ":", SP, "[", "]">>)
    /\ Contains(text, <<"ensemble_raw.txt">>)

Recovered == parseEnsembleOutputs(ensemble.text)

C20_Placeholders ==
    <<"final.cir">> \in FileNames \/ <<"final.json">> \in FileNames =>
        /\ IF IsBlank(Recovered.spiceNetlist)
           THEN /\ IsPlaceholderNetlist(FileContent(<<"final.cir">>))
                /\ IsPlaceholderNetlist(chatFinalCirText(Recovered))
           ELSE /\ FileContent(<<"final.cir">>) = Recovered.spiceNetlist
                /\ chatFinalCirText(Recovered) = Recovered.spiceNetlist
        /\ IF IsBlank(Recovered.circuitJson)
           THEN IsErrorJson(FileContent(<<"final.json">>))
           ELSE FileContent(<<"final.json">>) = Recovered.circuitJson

C20_Witness ==
    /\ pc = "done"
    /\ IsBlank(Recovered.spiceNetlist)
    /\ IsPlaceholderNetlist(FileContent(<<"final.cir">>))
    /\ ~IsBlank(Recovered.circuitJson)
    /\ FileContent(<<"final.json">>) = <<"{", "}">>

\* ----------------------------------------------------------------------
\* runBatch: the connectivity diagram
\* ----------------------------------------------------------------------
NotYet == <<"(not yet)">>

\* a || "" for a text that may be undefined
OrEmpty(text) == IF Truthy(text) THEN text ELSE <<>>

DotHeader == [kind |-> "line", text |-> "digraph G {"]

\* the comment line put after the header: "// NOTE: Rendered from ${sourceLabel}
\* netlist because final netlist was empty or unparseable."
ProvenanceNote(label) == [kind |-> "note", label |-> label]

annotate_headerOnly(d, label) ==
    IF \E i \in 1..Len(d) : d[i] = DotHeader
    THEN <<DotHeader, ProvenanceNote(label)>>
    ELSE d

\* dot.replace("digraph G {", "digraph G {\n  // NOTE: ..."): the first
\* occurrence of the header is followed by the note
annotate(d, label) ==
    IF \E i \in 1..Len(d) : d[i] = DotHeader
    THEN LET i == CHOOSE i \in 1..Len(d) :
                      d[i] = DotHeader /\ \A k \in 1..(i - 1) : d[k] # DotHeader
         IN  SubSeq(d, 1, i) \o <<ProvenanceNote(label)>> \o SubSeq(d, i + 1, Len(d))
    ELSE d

\* the body of the try block: the label of the netlist used, and the DOT text
connectivityDiagram(spice, baseline) ==
    LET final == OrEmpty(spice)
        baselineNetlistText == OrEmpty(baseline)
        emptyFinal == trim(final) = <<>> /\ trim(baselineNetlistText) # <<>>
        firstLabel == IF emptyFinal THEN "baseline" ELSE "final"
        firstComps == parseNetlist(IF emptyFinal THEN baselineNetlistText ELSE final)
        baselineComps == parseNetlist(baselineNetlistText)
        fallBack == /\ Len(firstComps) = 0
                    /\ firstLabel # "baseline"
                    /\ trim(baselineNetlistText) # <<>>
                    /\ Len(baselineComps) # 0
        label == IF fallBack THEN "baseline" ELSE firstLabel
        cs == IF fallBack THEN baselineComps ELSE firstComps
        d == netlistToDot(cs)
    IN  [sourceLabel |-> label,
         dot |-> IF label # "final" THEN annotate(d, label) ELSE d]

\* the netlists a run can end with and start from
DiagramNetlists ==
    {<<>>,
     <<SP, NL>>,
     <<"*", SP, "R1">>,
     Spaced(<<".tran", "1m", "10m">>) \o <<NL, ".end">>,
     Spaced(<<"R2", "in">>),
     Spaced(<<"R1", "in", "out", "1k">>),
     Spaced(<<"R1", "in", "out", "1k">>) \o <<NL>> \o Spaced(<<"C1", "out", "0", "1u">>),
     Spaced(<<"M1", "out+", "out-", "in", "k=v">>)}

\* const out = parseEnsembleOutputs(ensemble.text), with the baseline of the run
ParseOutputs(spice, baseline) ==
    /\ finalNetlist = NotYet
    /\ finalNetlist' = spice
    /\ baselineNetlist' = baseline
    /\ UNCHANGED <<sourceLabel, schematicDot, configVars, listenVars, chatVars, serverVars, ensembleVars, netlistVars, bundleVars, runVars>>

\* the try block up to writeText(schematicDot, dot)
ConnectivityDiagram ==
    /\ finalNetlist # NotYet
    /\ sourceLabel = "none"
    /\ LET drawn == connectivityDiagram(finalNetlist, baselineNetlist)
       IN  /\ sourceLabel' = drawn.sourceLabel
           /\ schematicDot' = drawn.dot
    /\ UNCHANGED <<finalNetlist, baselineNetlist, configVars, listenVars, chatVars, serverVars, ensembleVars, netlistVars, bundleVars, runVars>>

NextDiagram ==
    \/ \E spice \in DiagramNetlists, baseline \in DiagramNetlists \cup {Undefined} :
          ParseOutputs(spice, baseline)
    \/ ConnectivityDiagram

SpecDiagram == Init /\ [][NextDiagram]_vars

\* ----------------------------------------------------------------------
\* Vocabulary of the connectivity diagram
\* ----------------------------------------------------------------------
DiagramWritten == sourceLabel # "none"

TextOf(t) == IF t = Undefined THEN <<>> ELSE t

\* the node lines and edge lines of a DOT text, in order
NodeAndEdgeLines(d) == SelectSeq(d, LAMBDA st : st.kind \in {"node", "edge"})

NoteCount(d) == Len(SelectSeq(d, LAMBDA st : st.kind = "note"))

YieldsNone(text) == parseNetlist(TextOf(text)) = <<>>

\* the diagram in schematic.dot is the one of the given netlist, annotated or not
BuiltFrom(text, annotated) ==
    /\ NodeAndEdgeLines(schematicDot) = NodeAndEdgeLines(netlistToDot(parseNetlist(TextOf(text))))
    /\ NoteCount(schematicDot) = (IF annotated THEN 1 ELSE 0)
    /\ SelectSeq(schematicDot, LAMBDA st : st.kind # "note")
          = netlistToDot(parseNetlist(TextOf(text)))

True == <<"(true)">>
False == <<"(false)">>

\* the keys of the options object of "run", --config and --no-prompts aside
OptionNames ==
    {"question", "baselineNetlist", "baselineImage", "bundleIncludes", "outdir",
     "openaiModel", "grokModel", "geminiModel", "claudeModel"}

\* the third argument of .option(...): the value of an option whose flag is absent
DefaultValue(o) ==
    CASE o = "bundleIncludes" -> False
      [] o = "outdir" -> <<"runs">>
      [] o = "openaiModel" -> <<"gpt-5.2">>
      [] o = "grokModel" -> <<"grok-4">>
      [] o = "geminiModel" -> <<"gemini-2.5-flash">>
      [] o = "claudeModel" -> <<"claude-sonnet-4-5-20250929">>
      [] OTHER -> Undefined

\* the value a given flag carries: a boolean flag is true, the others their argument
FlagValue(o) == IF o = "bundleIncludes" THEN True ELSE <<"cli", o>>

\* the options object: the flag's value where the flag is given, else the default
parseOptions(given) ==
    [o \in OptionNames |-> IF o \in given THEN FlagValue(o) ELSE DefaultValue(o)]

\* the field of RunConfig an option is merged into
ConfigKey(o) ==
    CASE o = "question" -> "questionPath"
      [] o = "baselineNetlist" -> "baselineNetlistPath"
      [] o = "baselineImage" -> "baselineImagePath"
      [] OTHER -> o

ConfigKeys == {ConfigKey(o) : o \in OptionNames}

OptionOf(k) == CHOOSE o \in OptionNames : ConfigKey(o) = k

cleanString(v) ==
    IF v \in {Undefined, True, False} THEN Undefined
    ELSE LET str == trim(v)
         IN  IF str # <<>> THEN str ELSE Undefined

\* the value a field has in the JSON file
FileValue(k) == IF k = "bundleIncludes" THEN True ELSE <<"cfg", k>>

NoConfig == <<"(no config)">>

\* the normalized config of a file holding the given fields
readRunConfig(present) ==
    [k \in ConfigKeys |->
        LET raw == IF k \in present THEN FileValue(k) ELSE Undefined
        IN  IF k = "bundleIncludes" THEN raw ELSE cleanString(raw)]

\* { ...cfg } with a field replaced wherever the option has a usable value
mergeRunConfig(cli, config) ==
    [k \in ConfigKeys |->
        IF k = "bundleIncludes"
        THEN IF cli[OptionOf(k)] \in {True, False} THEN cli[OptionOf(k)] ELSE config[k]
        ELSE IF cleanString(cli[OptionOf(k)]) # Undefined
             THEN cleanString(cli[OptionOf(k)])
             ELSE config[k]]

\* Boolean(v)
ToBoolean(v) == IF v \in {Undefined, False, <<>>} THEN False ELSE True

\* merged?.key ?? fallback
MergedOr(merged, k, fallback) ==
    IF merged = NoConfig THEN fallback ELSE Coalesce(merged[k], fallback)

\* the object handed to runBatch by the action of "run"
runOptions(o, config) ==
    LET merged == IF config = NoConfig THEN NoConfig ELSE mergeRunConfig(o, config)
    IN  [k \in ConfigKeys |->
            CASE k = "questionPath" -> MergedOr(merged, k, trim(Coalesce(o["question"], <<>>)))
              [] k = "bundleIncludes" -> MergedOr(merged, k, ToBoolean(o["bundleIncludes"]))
              [] OTHER -> MergedOr(merged, k, o[OptionOf(k)])]

MaxFlags == 2

\* a set of at most MaxFlags names
FewOf(names) == {g \in SUBSET names : Cardinality(g) <= MaxFlags}

\* a set of names lacking at most MaxFlags of them
MostOf(names) == {names \ g : g \in FewOf(names)}

\* commander parses the command line
ParseArgs(given, withConfig) ==
    /\ commandPc = "start"
    /\ argv' = given \cup (IF withConfig THEN {"config"} ELSE {})
    /\ opts' = parseOptions(given)
    /\ commandPc' = "parsed"
    /\ UNCHANGED <<cfg, passed, diagramVars, listenVars, chatVars, serverVars, ensembleVars, netlistVars, bundleVars, runVars>>

\* const cfg = opts.config ? await readRunConfig(String(opts.config)) : undefined
ReadRunConfig(present) ==
    /\ commandPc = "parsed"
    /\ cfg' = IF "config" \in argv THEN readRunConfig(present) ELSE NoConfig
    /\ commandPc' = "configured"
    /\ UNCHANGED <<argv, opts, passed, diagramVars, listenVars, chatVars, serverVars, ensembleVars, netlistVars, bundleVars, runVars>>

\* no question path: the command ends with exit code 2
MissingInput ==
    /\ commandPc = "configured"
    /\ runOptions(opts, cfg)["questionPath"] = <<>>
    /\ commandPc' = "exit 2"
    /\ UNCHANGED <<argv, opts, cfg, passed, diagramVars, listenVars, chatVars, serverVars, ensembleVars, netlistVars, bundleVars, runVars>>

\* await runBatch({ ... })
CallRunBatch ==
    /\ commandPc = "configured"
    /\ runOptions(opts, cfg)["questionPath"] # <<>>
    /\ passed' = runOptions(opts, cfg)
    /\ commandPc' = "runBatch"
    /\ UNCHANGED <<argv, opts, cfg, diagramVars, listenVars, chatVars, serverVars, ensembleVars, netlistVars, bundleVars, runVars>>

NextConfig ==
    \/ \E given \in FewOf(OptionNames), withConfig \in BOOLEAN : ParseArgs(given, withConfig)
    \/ \E present \in MostOf(ConfigKeys) : ReadRunConfig(present)
    \/ MissingInput
    \/ CallRunBatch

SpecConfig == Init /\ [][NextConfig]_vars

\* C22: for run --config, runBatch gets the command-line value of an option
\* whose flag was given, and the value of the config file for every option
\* whose flag was not given and that the file sets.
C22_ConfigMerge ==
    commandPc = "runBatch" /\ "config" \in argv =>
        \A o \in OptionNames :
            /\ o \in argv => passed[ConfigKey(o)] = FlagValue(o)
            /\ o \notin argv /\ cfg[ConfigKey(o)] # Undefined
                  => passed[ConfigKey(o)] = cfg[ConfigKey(o)]

\* ----------------------------------------------------------------------
\* ui/server.ts: startUiServer binds a port
\* ----------------------------------------------------------------------
maxPortAttempts == 25

MaxPort == 65535

RequestedPorts == {3210, 8080, 65530}

\* what server.listen(p, host) can end with: the listening event, or an error
\* event with its code; a port outside 0..65535 is refused by listen itself
ListenOutcomes(p) ==
    IF p > MaxPort THEN {"ERR_SOCKET_BAD_PORT"}
    ELSE {"listening", "EADDRINUSE", "EACCES"}

ShouldContinue_always(code) == TRUE

\* if (e && typeof e === "object" && e.code === "EADDRINUSE") continue
ShouldContinue(code) == code = "EADDRINUSE"

\* let boundPort = requestedPort, before the loop
StartUiServer(port) ==
    /\ listenPc = "idle"
    /\ requestedPort' = port
    /\ boundPort' = port
    /\ listenPc' = "trying"
    /\ UNCHANGED <<tried, thrown, diagramVars, configVars, chatVars, serverVars, ensembleVars,
                   netlistVars, bundleVars, runVars>>

\* one iteration of the for loop, i being the number of ports tried before
TryListen(outcome) ==
    LET i == Len(tried)
        p == requestedPort + i
    IN  /\ listenPc = "trying"
        /\ i <= maxPortAttempts
        /\ outcome \in ListenOutcomes(p)
        /\ tried' = Append(tried, [port |-> p, outcome |-> outcome])
        /\ IF outcome = "listening"
           THEN boundPort' = p /\ listenPc' = "listening" /\ UNCHANGED thrown
           ELSE IF ShouldContinue(outcome)
                THEN UNCHANGED <<boundPort, listenPc, thrown>>
                ELSE listenPc' = "threw" /\ thrown' = outcome /\ UNCHANGED boundPort
        /\ UNCHANGED <<requestedPort, diagramVars, configVars, chatVars, serverVars, ensembleVars,
                       netlistVars, bundleVars, runVars>>

\* the loop ran out: throw new Error("No available port found in range ...")
NoAvailablePort ==
    /\ listenPc = "trying"
    /\ Len(tried) > maxPortAttempts
    /\ listenPc' = "threw"
    /\ thrown' = "No available port found"
    /\ UNCHANGED <<requestedPort, tried, boundPort, diagramVars, configVars, chatVars,
                   serverVars, ensembleVars, netlistVars, bundleVars, runVars>>

NextListen ==
    \/ \E port \in RequestedPorts : StartUiServer(port)
    \/ \E outcome \in {"listening", "EADDRINUSE", "EACCES", "ERR_SOCKET_BAD_PORT"} :
          TryListen(outcome)
    \/ NoAvailablePort

SpecListen == Init /\ [][NextListen]_vars

\* ----------------------------------------------------------------------
\* Vocabulary of the port search
\* ----------------------------------------------------------------------
Busy(k) == tried[k].outcome = "EADDRINUSE"

\* the ports tried are requestedPort, requestedPort + 1, ... in this order
Ascending == \A k \in 1..Len(tried) : tried[k].port = requestedPort + (k - 1)

\* every port tried but the last one was busy
OnlyLastNotBusy == \A k \in 1..(Len(tried) - 1) : Busy(k)

PortsInRange == maxPortAttempts + 1

\* C23: the ports are tried in ascending order from requestedPort; the server
\* listens on the first port that is not in use; a busy port leads to the next
\* port; any other listen error ends the search at once with that error; when
\* all 26 ports are busy the search ends with an error; never more than 26
\* ports are tried.
C23_PortSearch ==
    /\ Ascending
    /\ OnlyLastNotBusy
    /\ Len(tried) <= PortsInRange
    /\ listenPc = "listening" =>
          /\ tried[Len(tried)].outcome = "listening"
          /\ boundPort = tried[Len(tried)].port
    /\ listenPc = "threw" =>
          \/ /\ thrown = "No available port found"
             /\ Len(tried) = PortsInRange
             /\ \A k \in 1..Len(tried) : Busy(k)
          \/ /\ thrown \notin {"EADDRINUSE", "listening", "No available port found"}
             /\ tried[Len(tried)].outcome = thrown
    /\ listenPc = "trying" => \A k \in 1..Len(tried) : Busy(k)

\* all 26 ports of the range were busy and the search stopped with the error
C23_Witness ==
    /\ listenPc = "threw"
    /\ thrown = "No available port found"
    /\ Len(tried) = PortsInRange
    /\ \A k \in 1..Len(tried) : Busy(k)

\* ----------------------------------------------------------------------
\* The include bundler: what a rewritten line looks like
\* ----------------------------------------------------------------------
\* where the file specifier token starts in a directive line: the first lexeme
\* that is not white space after the directive keyword
TokenStart(line) ==
    LET keyword == Least({i \in 1..Len(line) : ~IsSpace(line[i])}) + 1
    IN  Least({i \in (keyword + 1)..Len(line) : ~IsSpace(line[i])})

\* the line with the specifier token, and nothing else, replaced by the path
\* in the quotes of the original
WithSpecifier(line, path) ==
    LET info == parseDirectiveLine(line)
        start == TokenStart(line)
    IN  SubSeq(line, 1, start - 1)
        \o info.quote \o path \o info.quote
        \o SubSeq(line, start + Len(info.fileToken), Len(line))

\* C24: a rewritten directive line differs from the original in the specifier
\* token only: leading white space, keyword and the tokens after the specifier
\* are kept, the specifier is the POSIX path of the copy relative to runDir,
\* in the same quotes, also when the specifier's text occurs earlier in the line.
C24_OnlySpecifierChanges ==
    phase = "returned" =>
        \A k \in 1..Len(copied) :
            \A i \in LinesNaming(copied[k].originalSpecifier) :
                outLines[i] = WithSpecifier(lines[i], BundledPath(copied[k]))

\* C25: in one pass, two relative specifiers that resolve to two different
\* source files are copied to two different destinations, so that no copy
\* overwrites an earlier one.
C25_RelativeDistinct ==
    \A k, j \in 1..Len(copied) :
        /\ ~isAbsolute(copied[k].originalSpecifier)
        /\ ~isAbsolute(copied[j].originalSpecifier)
        /\ copied[k].resolvedSourcePath # copied[j].resolvedSourcePath
        => copied[k].destPath # copied[j].destPath

\* C26: a pass that copied nothing returns the input text as it is, whatever
\* its line endings; any pass returns as many lines as the input has, the
\* lines that name no copied file being the input's lines (their line ending
\* aside), in place.
C26_TextUnchanged ==
    phase = "returned" =>
        /\ copied = <<>> => bundledNetlist = netlistText
        /\ Len(outLines) = Len(splitOn(netlistText, {NL}))
        /\ \A i \in 1..Len(outLines) :
              EntriesFor(copied, SpecifierOf(lines[i])) = {}
                  => outLines[i] = lines[i]

\* ----------------------------------------------------------------------
\* Node identifiers of the connectivity diagram
\* ----------------------------------------------------------------------
NetNames == UNION {{comps[i].nodes[k] : k \in 1..Len(comps[i].nodes)} : i \in 1..Len(comps)}

RefNames == {comps[i].ref : i \in 1..Len(comps)}

NodeIds(shape) ==
    {dot[i].id : i \in {n \in 1..Len(dot) : dot[n].kind = "node" /\ dot[n].shape = shape}}

\* C27: netlistToDot merges no two names: the net node identifiers are as many
\* as the net names, the component node identifiers as many as the component
\* references, and two different names never share an identifier.
C27_NoMergedNames ==
    stage = "drawn" =>
        /\ Cardinality(NodeIds("ellipse")) = Cardinality(NetNames)
        /\ Cardinality(NodeIds("box")) = Cardinality(RefNames)
        /\ \A a, b \in NetNames : a # b => NetId(a) # NetId(b)
        /\ \A a, b \in RefNames : a # b => CompId(a) # CompId(b)

\* ----------------------------------------------------------------------
\* index.ts: the chat command
\* ----------------------------------------------------------------------
NaN == -1000000

\* Number.parseInt(text, 10) for the arguments tried
ParseInt(text) ==
    CASE text = "0" -> 0
      [] text = "1" -> 1
      [] text = "2" -> 2
      [] text = "10" -> 10
      [] text = "60" -> 60
      [] OTHER -> NaN

HistoryArgs == {"0", "1", "2", "10", "60", "many"}

Min(a, b) == IF a <= b THEN a ELSE b
Max(a, b) == IF a >= b THEN a ELSE b

\* a || 10 for a number
OrTen(v) == IF v = 0 \/ v = NaN THEN 10 ELSE v

\* Math.max(0, Math.min(50, Number.parseInt(String(opts.maxHistory ?? "10"), 10) || 10))
maxHistoryOf(text) == Max(0, Min(50, OrTen(ParseInt(text))))

\* turns.slice(-n) for n > 0
sliceLast(seq, n) == SubSeq(seq, Max(1, Len(seq) - n + 1), Len(seq))

\* maxHistory ? turns.slice(-maxHistory) : []
promptTurns(seq, n) == IF n # 0 THEN sliceLast(seq, n) ELSE <<>>

\* String(n).padStart(3, "0"), as decimal digits
padStart3(n) ==
    IF n < 100 THEN <<0, (n \div 10) % 10, n % 10>>
    ELSE IF n < 1000 THEN <<n \div 100, (n \div 10) % 10, n % 10>>
    ELSE <<n \div 1000, (n \div 100) % 10, (n \div 10) % 10, n % 10>>

\* path.join(dir, "turns", "turn_" + turnN), turnN from turns.length + 1
turnDir(history, serial) == <<"turns", "turn_", padStart3(Len(history) + 1)>>

Artifact(dir, name, serial) == [dir |-> dir, name |-> name, message |-> serial]

MaxMessages == 3

ChatProviders == {"openai", "ensemble"}

\* the action of the chat command up to the first question of the REPL
Chat(text, provider, save) ==
    /\ chatPc = "start"
    /\ historyArg' = text
    /\ maxHistory' = maxHistoryOf(text)
    /\ currentProvider' = provider
    /\ saving' = save
    /\ chatPc' = "repl"
    /\ UNCHANGED <<turns, prompted, artifacts, sent, diagramVars, configVars, listenVars,
                   serverVars, ensembleVars, netlistVars, bundleVars, runVars>>

\* /reset
ResetCommand ==
    /\ chatPc = "repl"
    /\ turns' = <<>>
    /\ UNCHANGED <<historyArg, maxHistory, saving, currentProvider, prompted, artifacts, sent,
                   chatPc, diagramVars, configVars, listenVars, serverVars, ensembleVars, netlistVars,
                   bundleVars, runVars>>

\* /provider <name>
ProviderCommand(provider) ==
    /\ chatPc = "repl"
    /\ currentProvider' = provider
    /\ UNCHANGED <<historyArg, maxHistory, saving, turns, prompted, artifacts, sent,
                   chatPc, diagramVars, configVars, listenVars, serverVars, ensembleVars, netlistVars,
                   bundleVars, runVars>>

\* handleUserMessage: answered means the ensembling provider returned text
HandleUserMessage(answered) ==
    LET serial == sent + 1
        dir == turnDir(turns, serial)
        raw == <<Artifact(dir, "fanout.json", serial),
                 Artifact(dir, "ensemble_raw.txt", serial)>>
        finals == <<Artifact(dir, "final.md", serial),
                    Artifact(dir, "final.cir", serial),
                    Artifact(dir, "final.json", serial)>>
    IN  /\ chatPc = "repl"
        /\ sent < MaxMessages
        /\ sent' = serial
        /\ prompted' = [included |-> promptTurns(turns, maxHistory), before |-> turns]
        /\ artifacts' =
              IF currentProvider = "ensemble" /\ saving
              THEN artifacts \o raw \o (IF answered THEN finals ELSE <<>>)
              ELSE artifacts
        /\ turns' = Append(turns, serial)
        /\ UNCHANGED <<historyArg, maxHistory, saving, currentProvider, chatPc, diagramVars,
                       configVars, listenVars, serverVars, ensembleVars, netlistVars, bundleVars, runVars>>

NextChat ==
    \/ \E text \in HistoryArgs, provider \in ChatProviders, save \in BOOLEAN :
          Chat(text, provider, save)
    \/ ResetCommand
    \/ \E provider \in ChatProviders : ProviderCommand(provider)
    \/ \E answered \in BOOLEAN : HandleUserMessage(answered)

SpecChat == Init /\ [][NextChat]_vars

\* C28: in a saved session no ensemble turn writes into a turn directory that
\* an earlier turn wrote to: the artifacts of two different messages are
\* never in the same directory, whatever commands came between them.
C28_TurnDirsDistinct ==
    \A a, b \in 1..Len(artifacts) :
        artifacts[a].message # artifacts[b].message => artifacts[a].dir # artifacts[b].dir

\* C29: with --max-history n, n an integer >= 0, a prompt includes exactly the
\* most recent min(n, 50, number of turns so far) turns, none for n = 0 and
\* none right after /reset.
C29_HistoryWindow ==
    LET n == ParseInt(historyArg)
        k == Min(n, Min(50, Len(prompted.before)))
    IN  chatPc = "repl" /\ n # NaN /\ n >= 0 =>
            /\ Len(prompted.included) = k
            /\ prompted.included = SubSeq(prompted.before, Len(prompted.before) - k + 1,
                                          Len(prompted.before))

\* ----------------------------------------------------------------------
\* ui/server.ts: /api/run, /api/open and /api/file
\* ----------------------------------------------------------------------
\* process.cwd() of the server
cwd == <<SLASH, "srv">>

\* path.resolve(p)
resolveCwd(p) == resolve(cwd, p)

\* normalizeAbs on a platform other than win32
normalizeAbs(p) == resolveCwd(p)

startsWith(text, prefix) ==
    Len(text) >= Len(prefix) /\ SubSeq(text, 1, Len(prefix)) = prefix

isWithin_everywhere(childPath, parentPath) == TRUE

isWithin(childPath, parentPath) ==
    LET c == normalizeAbs(childPath)
        p == normalizeAbs(parentPath)
    IN  c = p \/ startsWith(c, p \o <<SLASH>>)

\* Array.from(allowedRunDirs).some((d) => isWithin(abs, d))
Allowed(abs, dirs) == \E d \in dirs : isWithin(abs, d)

\* result.runDir of a successful run
RunDirs == {<<"runs", SLASH, "r1">>, <<"runs", SLASH, "r2">>}

\* the paths on disk
OnDisk ==
    {<<SLASH, "srv", SLASH, "runs", SLASH, "r1">>,
     <<SLASH, "srv", SLASH, "runs", SLASH, "r1", SLASH, "final.md">>,
     <<SLASH, "srv", SLASH, "runs", SLASH, "r2">>,
     <<SLASH, "srv", SLASH, "runs", SLASH, "r2", SLASH, "final.md">>,
     <<SLASH, "srv", SLASH, "runs", SLASH, "r1x", SLASH, "final.md">>,
     <<SLASH, "etc", SLASH, "passwd">>}

\* the path of a request, <<>> when the request has none
RequestPaths ==
    {<<>>,
     <<"runs", SLASH, "r1">>,
     <<SLASH, "srv", SLASH, "runs", SLASH, "r1", SLASH, "final.md">>,
     <<SLASH, "srv", SLASH, "runs", SLASH, "r1", SLASH, "nothing.md">>,
     <<SLASH, "srv", SLASH, "runs", SLASH, "r1", SLASH, DOTDOT, SLASH, "r2", SLASH, "final.md">>,
     <<"runs", SLASH, "r2", SLASH, "final.md">>,
     <<SLASH, "srv", SLASH, "runs", SLASH, "r1x", SLASH, "final.md">>,
     <<SLASH, "srv", SLASH, "runs">>,
     <<SLASH, "etc", SLASH, "passwd">>}

MaxRuns == 2

Response(endpoint, path, status) == [endpoint |-> endpoint, path |-> path, status |-> status]

\* POST /api/run: no question path (400), runBatch throws (500), or it returns
ApiRun(outcome, dir) ==
    /\ runRequests < MaxRuns
    /\ runRequests' = runRequests + 1
    /\ CASE outcome = "no question" ->
              /\ lastResponse' = Response("/api/run", <<>>, 400)
              /\ UNCHANGED <<allowedRunDirs, returnedDirs>>
         [] outcome = "throws" ->
              /\ lastResponse' = Response("/api/run", <<>>, 500)
              /\ UNCHANGED <<allowedRunDirs, returnedDirs>>
         [] outcome = "returns" ->
              /\ allowedRunDirs' = allowedRunDirs \cup {resolveCwd(dir)}
              /\ returnedDirs' = returnedDirs \cup {dir}
              /\ lastResponse' = Response("/api/run", dir, 200)
    /\ UNCHANGED <<diagramVars, configVars, listenVars, chatVars, ensembleVars, netlistVars,
                   bundleVars, runVars>>

\* POST /api/open: opened tells whether the file manager could be started
ApiOpen(target, opened) ==
    /\ lastResponse' =
          IF target = <<>> THEN Response("/api/open", target, 400)
          ELSE IF ~Allowed(resolveCwd(target), allowedRunDirs)
               THEN Response("/api/open", target, 403)
          ELSE IF opened THEN Response("/api/open", target, 200)
          ELSE Response("/api/open", target, 500)
    /\ UNCHANGED <<allowedRunDirs, returnedDirs, runRequests, diagramVars, configVars,
                   listenVars, chatVars, ensembleVars, netlistVars, bundleVars, runVars>>

\* GET /api/file
ApiFile(target) ==
    /\ lastResponse' =
          IF target = <<>> THEN Response("/api/file", target, 400)
          ELSE IF ~Allowed(resolveCwd(target), allowedRunDirs)
               THEN Response("/api/file", target, 403)
          ELSE IF resolveCwd(target) \notin OnDisk
               THEN Response("/api/file", target, 404)
          ELSE Response("/api/file", target, 200)
    /\ UNCHANGED <<allowedRunDirs, returnedDirs, runRequests, diagramVars, configVars,
                   listenVars, chatVars, ensembleVars, netlistVars, bundleVars, runVars>>

NextServer ==
    \/ \E outcome \in {"no question", "throws", "returns"}, dir \in RunDirs : ApiRun(outcome, dir)
    \/ \E target \in RequestPaths, opened \in BOOLEAN : ApiOpen(target, opened)
    \/ \E target \in RequestPaths : ApiFile(target)

SpecServer == Init /\ [][NextServer]_vars

\* ----------------------------------------------------------------------
\* Vocabulary of the file endpoints
\* ----------------------------------------------------------------------
FileEndpoints == {"/api/open", "/api/file"}

\* the absolute path the request names is a returned run directory or below one
InReturnedDir(path) ==
    \E d \in returnedDirs :
        \/ AbsSegs(resolveCwd(path)) = AbsSegs(resolveCwd(d))
        \/ IsDescendant(resolveCwd(path), resolveCwd(d))

====
